---- MODULE Spec2Model ----
(***************************************************************************)
(* Portal lifecycle of the edutech workspace toolkit: portal-add,          *)
(* portal-update and portal-remove acting on one workspace directory.      *)
(*                                                                         *)
(* The workspace is the state: the portal directories under portals/, the  *)
(* backup and temporary directories, the root package.json, the optional   *)
(* ecosystem.config.js and the registry cache file.  One command runs at a *)
(* time; pc is its position, op its arguments and local variables, pre the *)
(* workspace as it was when the command started.                           *)
(***************************************************************************)
EXTENDS Integers, Sequences, FiniteSets, TLC

(***************************************************************************)
(* Bounds of the model.                                                    *)
(***************************************************************************)
MaxOps == 2

\* The latest time, in half hours, at which getRegistry is called on its own.
MaxTime == 4

\* Commands in a row in SequenceSpec.
MaxSeq == 6

(***************************************************************************)
(* Names.  A name is a sequence of characters, so that the pattern of      *)
(* addPortal is computed character by character.                           *)
(***************************************************************************)
LowerCase ==
  {"a","b","c","d","e","f","g","h","i","j","k","l","m",
   "n","o","p","q","r","s","t","u","v","w","x","y","z"}

Digits == {"0","1","2","3","4","5","6","7","8","9"}

NameChars == LowerCase \cup Digits \cup {"-"}

cbt == <<"c","b","t">>
fin == <<"f","-","1">>
lab == <<"l","a","b">>
invalidName == <<"I","n","v","a","l","i","d"," ","N","a","m","e">>
mixedName == <<"c","b","t","_","X">>
emptyName == <<>>

PortalNames == {cbt, fin, lab, invalidName, mixedName, emptyName}

Themes == {"default", "silk"}

\* portalName.match(/^[a-z0-9-]+$/), line 96: without the anchors a match
\* anywhere would accept "Invalid Name"; with them every character must be
\* in the class.
ValidNameUnanchored(n) == \E i \in 1..Len(n) : n[i] \in NameChars

ValidName(n) == Len(n) > 0 /\ \A i \in 1..Len(n) : n[i] \in NameChars

(***************************************************************************)
(* Operator answers to a prompt, and confirmAction.                        *)
(***************************************************************************)
Answers == {<<>>, <<"y">>, <<"Y","E","S">>, <<"n">>, <<"y","e","a","h">>}

ToLower(c) ==
  CASE c = "Y" -> "y"
    [] c = "E" -> "e"
    [] c = "S" -> "s"
    [] OTHER -> c

LowerAnswer(a) == [i \in 1..Len(a) |-> ToLower(a[i])]

\* /^y/i would accept every answer starting with y.
MatchesYesPrefix(a) == Len(a) > 0 /\ ToLower(a[1]) = "y"

\* /^y(es)?$/i
MatchesYes(a) == LowerAnswer(a) \in {<<"y">>, <<"y","e","s">>}

\* An empty answer taken as yes whatever the default.
ConfirmActionDefaultYes(answer, defaultValue) ==
  IF answer = <<>> THEN TRUE ELSE MatchesYes(answer)

ConfirmAction(answer, defaultValue) ==
  IF answer = <<>> THEN defaultValue ELSE MatchesYes(answer)

(***************************************************************************)
(* Directory trees.  A portal directory holds plain files (content 0 is    *)
(* "no such file") and the metadata file .portal-config.json (meta: the    *)
(* empty sequence when the file is absent, else the parsed record).        *)
(***************************************************************************)
Files == {"package.json", "app.js", "docs/.portal-config.json"}

\* The components of a file's path below the portal directory.
PathOf(f) ==
  IF f = "docs/.portal-config.json" THEN <<"docs", ".portal-config.json">> ELSE <<f>>

\* The name mergeDirectories sees when it reaches the file (portal-update.js
\* lines 250-262).
BaseName(f) == PathOf(f)[Len(PathOf(f))]

NoFiles == [f \in Files |-> 0]

AbsentDir == [present |-> FALSE, isDir |-> TRUE, files |-> NoFiles, meta |-> <<>>]

MkDir(files, meta) == [present |-> TRUE, isDir |-> TRUE, files |-> files, meta |-> meta]

\* An entry of portals/ that is a plain file, not a directory.
PlainFile == [present |-> TRUE, isDir |-> FALSE, files |-> NoFiles, meta |-> <<>>]

\* What a recursive delete of d that throws can leave behind: everything
\* (it failed at the first entry), the plain files without the metadata file,
\* or the emptied directory.
Remnants(d) == {d, MkDir(d.files, <<>>), MkDir(NoFiles, <<>>)}

(***************************************************************************)
(* Locators and the registry.                                              *)
(***************************************************************************)
shortLocator == <<"org", "/", "cbt-default">>
urlLocator == <<"https", "://", "example.com/fin.git">>
sshLocator == <<"git@", "example.com:org/fin-silk.git">>

GithubPrefix == <<"https", "://", "github.com", "/">>

Includes(loc, tok) == \E i \in 1..Len(loc) : loc[i] = tok

StartsWith(loc, tok) == Len(loc) > 0 /\ loc[1] = tok

\* Prefixing every locator, URLs and SSH addresses included.
ResolveLocatorAlways(loc) == GithubPrefix \o loc

\* part_001 lines 153-158
ResolveLocator(loc) ==
  IF ~Includes(loc, "://") /\ ~StartsWith(loc, "git@")
    THEN GithubPrefix \o loc
    ELSE loc

\* A descriptor without a version has version "".
registryA ==
  [portals |->
     (cbt :> [description |-> "CBT", version |-> "1.0.0",
              themes |-> ("default" :> shortLocator)])
     @@
     (fin :> [description |-> "Finance", version |-> "",
              themes |-> ("default" :> urlLocator @@ "silk" :> sshLocator)])]

RemoteRegistries == {registryA}

\* Trees the remote sources can hold when a snapshot is fetched.  The second
\* has no package.json and carries a metadata file of its own.
upstreamMeta == [name |-> cbt, theme |-> "default", repo |-> shortLocator,
                 version |-> "9.9.9", installedAt |-> 0, source |-> "upstream"]

Snapshots ==
  { MkDir([f \in Files |-> IF f = "docs/.portal-config.json" THEN 0 ELSE 1], <<>>),
    MkDir([f \in Files |-> IF f = "package.json" THEN 0 ELSE 2], <<upstreamMeta>>) }

(***************************************************************************)
(* Manifests.                                                              *)
(***************************************************************************)
WsPath(n) == [dir |-> "portals", name |-> n]

InitialWorkspaces ==
  << [dir |-> "portals", name |-> <<"*">>], [dir |-> "shared", name |-> <<>>] >>

IndexOf(seq, x) ==
  IF \E i \in 1..Len(seq) : seq[i] = x
    THEN CHOOSE i \in 1..Len(seq) : seq[i] = x /\ \A j \in 1..(i-1) : seq[j] # x
    ELSE 0

RemoveAt(seq, i) == [j \in 1..(Len(seq)-1) |-> IF j < i THEN seq[j] ELSE seq[j+1]]

AppName(n) == n \o <<"-portal">>

\* The names addPortal accepts.
InstallNames == {n \in PortalNames : ValidName(n)}

\* package.json as the tool reads it: the workspaces array (hasWorkspaces:
\* whether the field is there) and rest, every other field of the document.
\* JSON.parse and JSON.stringify keep the other fields as they are.
PackagesGlob == [dir |-> "packages", name |-> <<"*">>]

\* ecosystem.config.js.  apps is the descriptor list the file holds; form says
\* what the pattern of line 249 and the eval of line 252 make of the text:
\* "list" (captured and evaluated), "nomatch" (the pattern finds no apps list
\* closed by the end of the object, as when a deploy section follows it) or
\* "noeval" (the captured text does not evaluate); outside: whether the file
\* has text outside the apps list (a require, a comment, another section).
apiApp == [name |-> <<"a","p","i">>, cwd |-> <<"a","p","i">>, port |-> 3002]

webApp == [name |-> <<"w","e","b">>, cwd |-> <<"w","e","b">>, port |-> 3001]

cronApp == [name |-> <<"c","r","o","n">>, cwd |-> <<"c","r","o","n">>, port |-> 0]

EcoFile(apps, form, outside) ==
  [present |-> TRUE, apps |-> apps, form |-> form, outside |-> outside]

NoEcoFile == [present |-> FALSE, apps |-> <<>>, form |-> "list", outside |-> FALSE]


(***************************************************************************)
(* State.                                                                  *)
(***************************************************************************)
VARIABLES
  portals,      \* portals/<name>: the directory tree, or AbsentDir
  portalsRoot,  \* whether the directory portals/ exists
  backups,      \* the backup directories on disk
  temps,        \* the temporary fetch directories on disk
  pkg,          \* the root package.json
  eco,          \* ecosystem.config.js
  cache,        \* portal-registry-cache.json
  now,          \* the wall clock, read when a command starts
  pc,           \* position of the running command
  op,           \* arguments and local variables of the command
  pre,          \* the workspace when the command started
  nOps,         \* commands started so far
  dirs          \* the entry <institution>-workspace of the directory
                \* create-edutech is run from (here) and of its parent (above)

vars == <<portals, portalsRoot, backups, temps, pkg, eco, cache, now, pc, op, pre, nOps,
          dirs>>

\* An entry is absent, the workspace the tool created, or some other
\* directory.  The portal commands run inside the workspace.
InWorkspace == [here |-> "workspace", above |-> "absent"]

Workspace ==
  [portals |-> portals, portalsRoot |-> portalsRoot, backups |-> backups,
   temps |-> temps, pkg |-> pkg, eco |-> eco, cache |-> cache, dirs |-> dirs]

\* What createWorkspace writes: package.json, portals/, the seeded cache.
InitialPkg ==
  [workspaces |-> InitialWorkspaces, hasWorkspaces |-> TRUE, rest |-> "created"]

\* createWorkspace without its step 9.
InitialCacheMissing == [present |-> FALSE, valid |-> TRUE, portals |-> <<>>, lastFetched |-> 0]

InitialCache == [present |-> TRUE, valid |-> TRUE, portals |-> <<>>, lastFetched |-> 0]

\* The tool never creates ecosystem.config.js; the operator may have.
InitialEcos == { NoEcoFile, EcoFile(<<>>, "list", FALSE) }

NoOp ==
  [kind |-> "none", name |-> <<>>, theme |-> "default", force |-> FALSE,
   backup |-> FALSE, backupArg |-> FALSE, git |-> "norepo",
   backupDir |-> <<>>, backedUp |-> FALSE, snap |-> <<>>, config |-> <<>>,
   temp |-> <<>>, registry |-> <<>>, repo |-> <<>>, version |-> "",
   netFetch |-> FALSE, snapFetch |-> FALSE, faults |-> {},
   declined |-> <<>>, contAnswer |-> <<>>, wrote |-> {}, call |-> <<>>,
   queue |-> <<>>, listing |-> {}, found |-> <<>>, cwd |-> "start", step |-> 0,
   exit |-> -1]

NewOp(kind, n) == [NoOp EXCEPT !.kind = kind, !.name = n]

Init ==
  /\ portals = [n \in PortalNames |-> AbsentDir]
  /\ portalsRoot = TRUE
  /\ backups = {}
  /\ temps = {}
  /\ pkg = InitialPkg
  /\ eco \in InitialEcos
  /\ cache = InitialCache
  /\ now = 0
  /\ pc = "idle"
  /\ op = NoOp
  /\ pre = [portals |-> portals, portalsRoot |-> TRUE, backups |-> {},
            temps |-> {}, pkg |-> InitialPkg, eco |-> eco, cache |-> InitialCache,
            dirs |-> InWorkspace]
  /\ nOps = 0
  /\ dirs = InWorkspace

CanStart == pc \in {"idle", "done"} /\ nOps < MaxOps

\* process.exit(code), or the command returning to main (code 0).
Exit(o, code) == [o EXCEPT !.exit = code]

\* Two commands never start within the same millisecond: the clock has
\* advanced whenever a command starts, and the steps of one command run at
\* that reading.
ClockAtStart == now + 1

(***************************************************************************)
(* Backup directories.  cp -r SRC DST creates DST when it does not exist   *)
(* and copies SRC into DST/<basename> when it does.                        *)
(***************************************************************************)
BackupAt(loc) == { b \in backups : b.loc = loc }

CopyTo(loc, tree, info) ==
  IF BackupAt(loc) = {}
    THEN backups \cup {[loc |-> loc, tree |-> tree, info |-> info, nested |-> <<>>]}
    ELSE { IF b.loc = loc
             THEN [b EXCEPT !.nested = Append(@, tree), !.info = (@ \/ info)]
             ELSE b : b \in backups }

NonEmptyBackup(b) ==
  \/ b.info
  \/ b.tree.meta # <<>>
  \/ \E f \in Files : b.tree.files[f] # 0
  \/ b.nested # <<>>

(***************************************************************************)
(* portal-remove.js                                                        *)
(***************************************************************************)
RemoveBackupLoc(n) == <<"portal-backups", n, now>>

\* createBackup, lines 188-211: mkdir -p portal-backups, cp -r, then the
\* sidecar .backup-info.json; the backup directories on disk afterwards.
CreateBackup(n) == CopyTo(RemoveBackupLoc(n), portals[n], TRUE)

\* splice(index - 1, 1) would remove the entry before the portal's.
DeregisterOffByOne(p, n) ==
  IF p.hasWorkspaces /\ IndexOf(p.workspaces, WsPath(n)) # 0
    THEN [p EXCEPT !.workspaces = RemoveAt(@, IndexOf(p.workspaces, WsPath(n)) - 1)]
    ELSE p

\* removeFromWorkspaces, lines 140-148: whether writeFile is reached
DeregisterWrites(p, n) == p.hasWorkspaces /\ IndexOf(p.workspaces, WsPath(n)) # 0

\* removeFromWorkspaces, lines 130-150
Deregister(p, n) ==
  IF DeregisterWrites(p, n)
    THEN [p EXCEPT !.workspaces = RemoveAt(@, IndexOf(p.workspaces, WsPath(n)))]
    ELSE p

\* lines 161-169 (and lines 249-256 of addPortal): the apps the editor works
\* on; none when the pattern does not match or the eval throws.
SeenApps(e) == IF e.form = "list" THEN e.apps ELSE <<>>

\* removeFromEcosystem, lines 152-186
FilterApps(apps, n) == SelectSeq(apps, LAMBDA a : a.name # AppName(n))

\* lines 163, 174: whether writeFile is reached
EcoDeregisterWrites(e, n) ==
  /\ e.present /\ e.form # "nomatch"
  /\ Len(FilterApps(SeenApps(e), n)) < Len(SeenApps(e))

\* lines 175-179: the file becomes "module.exports = { apps: <list> };"
EcoDeregister(e, n) ==
  IF EcoDeregisterWrites(e, n)
    THEN EcoFile(FilterApps(SeenApps(e), n), "list", FALSE)
    ELSE e

\* removePortal lines 213-223: getPortalInfo
RemStart ==
  /\ CanStart
  /\ \E n \in PortalNames, force \in BOOLEAN, backup \in BOOLEAN :
       /\ LET o == [NewOp("remove", n) EXCEPT !.force = force, !.backup = backup,
                                              !.backupArg = backup]
          IN IF ~portals[n].present
               THEN pc' = "done" /\ op' = Exit(o, 1)
               ELSE pc' = "rem_confirm" /\ op' = o
  /\ pre' = Workspace
  /\ nOps' = nOps + 1
  /\ now' = ClockAtStart
  /\ UNCHANGED <<dirs, portals, portalsRoot, backups, temps, pkg, eco, cache>>

\* Where removePortal goes when the removal is not confirmed: it returns
\* (lines 266-269).
AfterDeclinedGoesOn == "rem_backup"

AfterDeclined == "done"

\* lines 259-282: the confirmation and the backup prompt
RemConfirm ==
  /\ pc = "rem_confirm"
  /\ IF op.force
       THEN pc' = "rem_backup" /\ op' = op
       ELSE \E a1 \in Answers :
              IF ~ConfirmAction(a1, FALSE)
                THEN /\ pc' = AfterDeclined
                     /\ op' = IF AfterDeclined = "done"
                                THEN Exit([op EXCEPT !.declined = <<"remove", a1>>], 0)
                                ELSE [op EXCEPT !.declined = <<"remove", a1>>]
                ELSE IF op.backup
                  THEN \E a2 \in Answers :
                         /\ pc' = "rem_backup"
                         /\ op' = [op EXCEPT !.backup = ConfirmAction(a2, TRUE)]
                  ELSE /\ pc' = "rem_backup"
                       /\ op' = op
  /\ UNCHANGED <<dirs, portals, portalsRoot, backups, temps, pkg, eco, cache, now, pre, nOps>>

\* lines 284-299 with createBackup, lines 188-211
RemBackup ==
  /\ pc = "rem_backup"
  /\ IF ~op.backup
       THEN pc' = "rem_config" /\ op' = op /\ UNCHANGED backups
       ELSE \/ \* the copy and the sidecar are written
               /\ backups' = CreateBackup(op.name)
               /\ op' = [op EXCEPT !.backupDir = <<RemoveBackupLoc(op.name)>>,
                                   !.backedUp = TRUE]
               /\ pc' = "rem_config"
            \/ \* cp fails (nothing copied) or the sidecar write fails (copy left)
               \E kind \in {"cp", "info"}, a3 \in Answers :
                 /\ backups' = IF kind = "cp" THEN backups
                               ELSE CopyTo(RemoveBackupLoc(op.name), portals[op.name], FALSE)
                 /\ LET o == [op EXCEPT !.faults = @ \cup {"backup"}, !.contAnswer = <<a3>>]
                    IN IF ~ConfirmAction(a3, FALSE)
                         THEN pc' = "done" /\ op' = Exit(o, 0)
                         ELSE pc' = "rem_config" /\ op' = o
  /\ UNCHANGED <<dirs, portals, portalsRoot, temps, pkg, eco, cache, now, pre, nOps>>

\* The manifest files that removeFromWorkspaces and removeFromEcosystem write.
WrittenByRemove(p, e, n) ==
  (IF DeregisterWrites(p, n) THEN {"package.json"} ELSE {})
  \cup (IF EcoDeregisterWrites(e, n) THEN {"ecosystem.config.js"} ELSE {})

\* lines 301-307: both manifests; a failure is a warning
RemConfig ==
  /\ pc = "rem_config"
  /\ \/ /\ pkg' = Deregister(pkg, op.name)
        /\ \/ /\ eco' = EcoDeregister(eco, op.name)
              /\ op' = [op EXCEPT !.wrote = WrittenByRemove(pkg, eco, op.name)]
           \/ /\ eco.present /\ eco' = eco
              /\ op' = [op EXCEPT !.faults = @ \cup {"ecosystem"},
                                  !.wrote = WrittenByRemove(pkg, NoEcoFile, op.name)]
     \/ \* package.json cannot be read or written: removeFromEcosystem is skipped
        /\ pkg' = pkg /\ eco' = eco
        /\ op' = [op EXCEPT !.faults = @ \cup {"workspaces"}]
  /\ pc' = "rem_delete"
  /\ UNCHANGED <<dirs, portals, portalsRoot, backups, temps, cache, now, pre, nOps>>

\* lines 309-332: delete the directory, then the empty portals root
RemDelete ==
  /\ pc = "rem_delete"
  /\ \/ \* rmSync throws part of the way through
        \E d \in Remnants(portals[op.name]) :
          /\ portals' = [portals EXCEPT ![op.name] = d]
          /\ portalsRoot' = portalsRoot
          /\ op' = Exit([op EXCEPT !.faults = @ \cup {"delete"}], 1)
     \/ /\ portals' = [portals EXCEPT ![op.name] = AbsentDir]
        /\ portalsRoot' = (portalsRoot /\ \E m \in PortalNames \ {op.name} : portals[m].present)
        /\ op' = Exit(op, 0)
  /\ pc' = "done"
  /\ UNCHANGED <<dirs, backups, temps, pkg, eco, cache, now, pre, nOps>>


(***************************************************************************)
(* portal-update.js                                                        *)
(***************************************************************************)
GitStates == {"norepo", "clean", "dirty"}

UpdateBackupLoc(n) == <<"backup", n, now>>

UpdateTemp(n) == <<"temp-update", n, now>>

\* backupPortal, lines 41-55: cp -r into the workspace root; the backup
\* directories on disk afterwards.
BackupPortal(n) == CopyTo(UpdateBackupLoc(n), portals[n], FALSE)

\* lines 91-106: the only condition under which the status check stops
DirtyAbortNever(git, force) == FALSE

DirtyAbort(git, force) == git = "dirty" /\ ~force

\* mergeDirectories, lines 247-270: every file of the snapshot is copied over
\* the live one except .portal-config.json; nothing is deleted.
MergeDirectories(src, dst) ==
  [dst EXCEPT !.files =
     [f \in Files |-> IF src.files[f] # 0 /\ BaseName(f) # ".portal-config.json"
                        THEN src.files[f]
                        ELSE dst.files[f]]]

\* A merge that stopped at a failing copy: some of the files were copied.
PartialMerges(src, dst) ==
  { [dst EXCEPT !.files = g] :
      g \in { h \in [Files -> {dst.files[f] : f \in Files} \cup {src.files[f] : f \in Files}] :
                /\ \A f \in Files : h[f] \in {dst.files[f], MergeDirectories(src, dst).files[f]}
                /\ h # MergeDirectories(src, dst).files } }

\* An update that records the version of the fetched snapshot's metadata.
UpdatedConfigNewVersion(cfg, t, loc) ==
  [updatedAt |-> t, previousVersion |-> cfg.version, backupLocation |-> loc,
   version |-> upstreamMeta.version] @@ cfg

\* { updatedAt, previousVersion, backupLocation, ...portalConfig }: the spread
\* last, so that the fields of an earlier update win.
UpdatedConfigSpreadLast(cfg, t, loc) ==
  cfg @@ [updatedAt |-> t, previousVersion |-> cfg.version, backupLocation |-> loc]

\* lines 175-181: { ...portalConfig, updatedAt, previousVersion, backupLocation }
UpdatedConfig(cfg, t, loc) ==
  [updatedAt |-> t, previousVersion |-> cfg.version, backupLocation |-> loc] @@ cfg

\* main, lines 350-369: where control goes when updatePortal returns or
\* throws.  Inside the loop of 'update all' the next portal is taken; a
\* single update ends the command (main returns, or its catch exits 1).
AfterUpdate(o) == IF o.kind = "updateall" THEN "upd_all" ELSE "done"

Leave(o, code) == IF o.kind = "updateall" THEN o ELSE Exit(o, code)

\* lines 68-80: getPortalConfig
UpdStart ==
  /\ CanStart
  /\ \E n \in PortalNames, force \in BOOLEAN :
       LET managed == portals[n].present /\ portals[n].meta # <<>>
           o == [NewOp("update", n) EXCEPT !.force = force]
       IN IF ~managed
            THEN pc' = "done" /\ op' = Exit(o, 1)
            ELSE pc' = "upd_git" /\ op' = [o EXCEPT !.config = portals[n].meta]
  /\ pre' = Workspace
  /\ nOps' = nOps + 1
  /\ now' = ClockAtStart
  /\ UNCHANGED <<dirs, portals, portalsRoot, backups, temps, pkg, eco, cache>>

\* lines 82-110: uncommitted changes
UpdGit ==
  /\ pc = "upd_git"
  /\ \E git \in GitStates :
       IF DirtyAbort(git, op.force)
         THEN pc' = "done" /\ op' = Exit([op EXCEPT !.git = git], 1)
         ELSE pc' = "upd_backup" /\ op' = [op EXCEPT !.git = git]
  /\ UNCHANGED <<dirs, portals, portalsRoot, backups, temps, pkg, eco, cache, now, pre, nOps>>

\* Where updatePortal goes when backupPortal throws: process.exit(1).
AfterBackupFailureGoesOn == "upd_fetch"

AfterBackupFailure == "done"

\* lines 112-120 with backupPortal, lines 41-55
UpdBackup ==
  /\ pc = "upd_backup"
  /\ \/ /\ backups' = BackupPortal(op.name)
        /\ op' = [op EXCEPT !.backupDir = <<UpdateBackupLoc(op.name)>>, !.backedUp = TRUE]
        /\ pc' = "upd_fetch"
     \/ /\ backups' = backups
        /\ pc' = AfterBackupFailure
        /\ op' = IF AfterBackupFailure = "done"
                   THEN Exit([op EXCEPT !.faults = @ \cup {"backup"}], 1)
                   ELSE [op EXCEPT !.faults = @ \cup {"backup"}]
  /\ UNCHANGED <<dirs, portals, portalsRoot, temps, pkg, eco, cache, now, pre, nOps>>

\* lines 122-147: degit into the temporary directory
UpdFetch ==
  /\ pc = "upd_fetch"
  /\ \/ \E snap \in Snapshots :
          /\ temps' = temps \cup {UpdateTemp(op.name)}
          /\ op' = [op EXCEPT !.snap = <<snap>>, !.snapFetch = TRUE,
                              !.temp = UpdateTemp(op.name)]
          /\ pc' = "upd_apply"
     \/ \* degit throws, or leaves a missing or empty directory
        \E kind \in {"fetch", "empty"}, left \in BOOLEAN :
          /\ temps' = IF left THEN temps \cup {UpdateTemp(op.name)} ELSE temps
          /\ op' = [op EXCEPT !.snapFetch = TRUE, !.faults = @ \cup {kind},
                              !.temp = UpdateTemp(op.name)]
          /\ pc' = "upd_restore"
  /\ UNCHANGED <<dirs, portals, portalsRoot, backups, pkg, eco, cache, now, pre, nOps>>

\* lines 149-173: replace (force) or merge
UpdApply ==
  /\ pc = "upd_apply"
  /\ LET n == op.name
         snap == op.snap[1]
     IN IF op.force
          THEN \/ \* rmSync throws part of the way through
                  \E d \in Remnants(portals[n]) :
                    /\ portals' = [portals EXCEPT ![n] = d]
                    /\ temps' = temps
                    /\ op' = [op EXCEPT !.faults = @ \cup {"delete"}]
                    /\ pc' = "upd_restore"
               \/ /\ portals' = [portals EXCEPT ![n] = snap]
                  /\ temps' = temps \ {op.temp}
                  /\ op' = op
                  /\ pc' = "upd_meta"
               \/ \* renameSync throws after the delete
                  /\ portals' = [portals EXCEPT ![n] = AbsentDir]
                  /\ temps' = temps
                  /\ op' = [op EXCEPT !.faults = @ \cup {"rename"}]
                  /\ pc' = "upd_restore"
          ELSE \/ /\ portals' = [portals EXCEPT ![n] = MergeDirectories(snap, portals[n])]
                  /\ temps' = temps \ {op.temp}
                  /\ op' = op
                  /\ pc' = "upd_meta"
               \/ \E d \in PartialMerges(snap, portals[n]) :
                    /\ portals' = [portals EXCEPT ![n] = d]
                    /\ temps' = temps
                    /\ op' = [op EXCEPT !.faults = @ \cup {"merge"}]
                    /\ pc' = "upd_restore"
  /\ UNCHANGED <<dirs, portalsRoot, backups, pkg, eco, cache, now, pre, nOps>>

\* lines 175-186: rewrite the metadata file
UpdMeta ==
  /\ pc = "upd_meta"
  /\ \/ /\ portals' = [portals EXCEPT ![op.name].meta =
                          <<UpdatedConfig(op.config[1], now, op.backupDir[1])>>]
        /\ op' = op
        /\ pc' = "upd_deps"
     \/ /\ portals' = portals
        /\ op' = [op EXCEPT !.faults = @ \cup {"meta"}]
        /\ pc' = "upd_restore"
  /\ UNCHANGED <<dirs, portalsRoot, backups, temps, pkg, eco, cache, now, pre, nOps>>

\* lines 188-206: the package.json of the backup is read without an existence
\* check, inside the try of line 127; a failing pnpm install is a warning
\* and changes nothing.
UpdDeps ==
  /\ pc = "upd_deps"
  /\ LET live == portals[op.name].files["package.json"]
         old == (CHOOSE b \in backups : b.loc = op.backupDir[1]).tree.files["package.json"]
     IN IF live # 0 /\ old = 0
          THEN pc' = "upd_restore" /\ op' = [op EXCEPT !.faults = @ \cup {"deps"}]
          ELSE pc' = AfterUpdate(op) /\ op' = Leave(op, 0)
  /\ UNCHANGED <<dirs, portals, portalsRoot, backups, temps, pkg, eco, cache, now, pre, nOps>>

\* Whether the rmSync of the catch block (line 237) throws.  One step fails
\* per command.  When that step is the delete of line 155, what made it throw
\* (an entry of the live directory that cannot be unlinked) is still there a
\* few statements later, and the same call on the same directory throws again.
RestoreDeleteThrows(o) == "delete" \in o.faults

\* lines 226-243: the catch block.  An rmSync or renameSync that throws here
\* leaves updatePortal with an exception; otherwise the block ends in
\* process.exit(1).
UpdRestore ==
  /\ pc = "upd_restore"
  /\ LET n == op.name
         b == CHOOSE x \in backups : x.loc = op.backupDir[1]
         thrown == (portals[n].present /\ RestoreDeleteThrows(op)) \/ op.backupDir = <<>>
     IN /\ temps' = temps \ {op.temp}
        /\ pc' = IF thrown THEN AfterUpdate(op) ELSE "done"
        /\ op' = IF thrown THEN Leave(op, 1) ELSE Exit(op, 1)
        /\ IF portals[n].present /\ RestoreDeleteThrows(op)
             THEN \E d \in Remnants(portals[n]) :
                    /\ portals' = [portals EXCEPT ![n] = d]
                    /\ backups' = backups
             ELSE IF op.backupDir = <<>>
               THEN \* renameSync of a missing source throws after the delete
                    /\ portals' = [portals EXCEPT ![n] = AbsentDir]
                    /\ backups' = backups
               ELSE /\ portals' = [portals EXCEPT ![n] = b.tree]
                    /\ backups' = backups \ {b}
  /\ UNCHANGED <<dirs, portalsRoot, pkg, eco, cache, now, pre, nOps>>

\* listUpdatablePortals, lines 326-344: the entries of portals/ that hold a
\* metadata file, in the order readdir gives them.
Updatable ==
  { n \in PortalNames : portalsRoot /\ portals[n].present /\ portals[n].meta # <<>> }

ReadDirOrders(S) ==
  { q \in [1..Cardinality(S) -> S] : \A i, j \in 1..Cardinality(S) : q[i] = q[j] => i = j }

\* main, lines 346-356: 'update all' lists the updatable portals
UpdAllStart ==
  /\ CanStart
  /\ \E force \in BOOLEAN, q \in ReadDirOrders(Updatable) :
       LET o == [NewOp("updateall", <<>>) EXCEPT !.force = force, !.queue = q]
       IN IF q = <<>>
            THEN pc' = "done" /\ op' = Exit(o, 0)
            ELSE pc' = "upd_all" /\ op' = o
  /\ pre' = Workspace
  /\ nOps' = nOps + 1
  /\ now' = ClockAtStart
  /\ UNCHANGED <<dirs, portals, portalsRoot, backups, temps, pkg, eco, cache>>

\* main, lines 358-367: the loop takes the next portal and calls updatePortal
\* (lines 68-80), or ends after the last one.  The clock has advanced since
\* the portal before.
UpdAllNext ==
  /\ pc = "upd_all"
  /\ IF op.queue = <<>>
       THEN pc' = "done" /\ op' = Exit(op, 0) /\ now' = now
       ELSE LET n == Head(op.queue)
                managed == portals[n].present /\ portals[n].meta # <<>>
                o == [NewOp("updateall", n) EXCEPT !.force = op.force,
                                                   !.queue = Tail(op.queue)]
            IN /\ now' = now + 1
               /\ IF ~managed
                    THEN pc' = "done" /\ op' = Exit(o, 1)
                    ELSE pc' = "upd_git" /\ op' = [o EXCEPT !.config = portals[n].meta]
  /\ UNCHANGED <<dirs, portals, portalsRoot, backups, temps, pkg, eco, cache, pre, nOps>>

(***************************************************************************)
(* portal-add.js                                                           *)
(***************************************************************************)
BasePort == 3000

CloneTemp(n) == <<"temp-clone", n, 0>>

\* Recording the default theme instead of the requested one.
PortalConfigDefaultTheme(n, theme, repo, version, t) ==
  [name |-> n, theme |-> "default", repo |-> repo, version |-> version,
   installedAt |-> t, source |-> "registry"]

\* lines 209-216
PortalConfig(n, theme, repo, version, t) ==
  [name |-> n, theme |-> theme, repo |-> repo, version |-> version,
   installedAt |-> t, source |-> "registry"]

\* line 213: portalInfo.version || '1.0.0'
VersionOf(desc) == IF desc.version = "" THEN "1.0.0" ELSE desc.version

\* lines 229-235: whether push and writeFile are reached
RegisterWrites(p, n) == ~p.hasWorkspaces \/ IndexOf(p.workspaces, WsPath(n)) = 0

\* push without the includes test of line 233.
RegisterAlways(p, n) ==
  [p EXCEPT !.workspaces = Append(IF p.hasWorkspaces THEN @ ELSE <<>>, WsPath(n)),
            !.hasWorkspaces = TRUE]

\* Writing a manifest that holds the workspaces and nothing else.
RegisterFresh(p, n) ==
  IF RegisterWrites(p, n)
    THEN [workspaces |-> Append(IF p.hasWorkspaces THEN p.workspaces ELSE <<>>, WsPath(n)),
          hasWorkspaces |-> TRUE, rest |-> "none"]
    ELSE p

\* lines 229-237
Register(p, n) ==
  IF RegisterWrites(p, n)
    THEN [p EXCEPT !.workspaces = Append(IF p.hasWorkspaces THEN @ ELSE <<>>, WsPath(n)),
                   !.hasWorkspaces = TRUE]
    ELSE p

\* The base port plus the number of descriptors.
NextPortByCount(apps) == BasePort + Len(apps)

\* lines 258-265
NextPort(apps) ==
  IF Len(apps) > 0 /\ apps[Len(apps)].port # 0
    THEN apps[Len(apps)].port + 1
    ELSE BasePort

\* lines 267-277
NewApp(n, port) == [name |-> AppName(n), cwd |-> n, port |-> port]

\* lines 245-284: the file becomes "module.exports = { apps: <list> };" with
\* the new descriptor after the ones the editor has seen
EcoRegister(e, n) ==
  EcoFile(Append(SeenApps(e), NewApp(n, NextPort(SeenApps(e)))), "list", FALSE)

\* line 103: exists(portalPath); testing the metadata file instead would let
\* a directory without one through.
AlreadyExistsIfManaged(n) == portals[n].present /\ portals[n].meta # <<>>

AlreadyExists(n) == portals[n].present

\* lines 72-75: { ...registry, lastFetched: new Date().toISOString() }
CacheEntryUnstamped(reg, t) ==
  [present |-> TRUE, valid |-> TRUE, portals |-> reg.portals, lastFetched |-> 0]

CacheEntry(reg, t) ==
  [present |-> TRUE, valid |-> TRUE, portals |-> reg.portals, lastFetched |-> t]

(***************************************************************************)
(* getRegistry, of portal-add (part_001) and of portal-list (part_002), as *)
(* a function of the cache file c, the time t, whether .edutechrc can be   *)
(* read and parsed (rcOk), and what the HTTPS request of fetchJSON gives:  *)
(* the registry reg ("ok"), an error or a status other than 200 ("down"),  *)
(* or a body that JSON.parse rejects ("badjson").  A cache file that is     *)
(* there but does not parse has valid = FALSE.  Time is counted in units   *)
(* of half an hour.                                                        *)
(***************************************************************************)
OneHour == 2

NetOutcomes == {"ok", "down", "badjson"}

NoCacheFile == [present |-> FALSE, valid |-> TRUE, portals |-> <<>>, lastFetched |-> 0]

BrokenCacheFile == [present |-> TRUE, valid |-> FALSE, portals |-> <<>>, lastFetched |-> 0]

Returned(from, doc) == [kind |-> "returned", from |-> from, portals |-> doc, msg |-> ""]

Thrown(msg) == [kind |-> "thrown", from |-> "", portals |-> <<>>, msg |-> msg]

\* A catch block without the cache fallback.
FallbackThrows(c) == Thrown("No registry available")

\* part_002 lines 107-118, part_001 lines 78-89: the catch block.  JSON.parse
\* of the cache is not guarded: when it throws, its SyntaxError leaves
\* getRegistry.
Fallback(c) ==
  IF c.present
    THEN IF c.valid THEN Returned("cache", c.portals) ELSE Thrown("SyntaxError")
    ELSE Thrown("No registry available")

\* now - cacheTime <= 60 * 60 * 1000
FreshInclusive(c, t) == t - c.lastFetched <= OneHour

\* part_002 line 87: now - cacheTime < 60 * 60 * 1000
Fresh(c, t) == t - c.lastFetched < OneHour

\* part_002 lines 94-105 (part_001 lines 68-77): fetch, write the cache, return
FetchFresh(c, net, reg, t) ==
  IF net = "ok"
    THEN [result |-> Returned("network", reg.portals), cache |-> CacheEntry(reg, t),
          fetched |-> TRUE]
    ELSE [result |-> Fallback(c), cache |-> c, fetched |-> TRUE]

\* part_002 lines 70-119
GetRegistry(c, forceRefresh, rcOk, net, reg, t) ==
  IF ~rcOk
    THEN [result |-> Fallback(c), cache |-> c, fetched |-> FALSE]
    ELSE IF ~forceRefresh /\ c.present
      THEN IF ~c.valid
             THEN [result |-> Fallback(c), cache |-> c, fetched |-> FALSE]
             ELSE IF Fresh(c, t)
               THEN [result |-> Returned("cache", c.portals), cache |-> c, fetched |-> FALSE]
               ELSE FetchFresh(c, net, reg, t)
      ELSE FetchFresh(c, net, reg, t)

\* part_001 lines 62-90
AddGetRegistry(c, rcOk, net, reg, t) ==
  IF ~rcOk
    THEN [result |-> Fallback(c), cache |-> c, fetched |-> FALSE]
    ELSE FetchFresh(c, net, reg, t)

\* lines 95-107: the name pattern, then the existence check
AddStart ==
  /\ CanStart
  /\ \E n \in PortalNames, theme \in Themes :
       LET o == [NewOp("add", n) EXCEPT !.theme = theme]
       IN IF ~ValidName(n) \/ AlreadyExists(n)
            THEN pc' = "done" /\ op' = Exit(o, 1)
            ELSE pc' = "add_registry" /\ op' = o
  /\ pre' = Workspace
  /\ nOps' = nOps + 1
  /\ now' = ClockAtStart
  /\ UNCHANGED <<dirs, portals, portalsRoot, backups, temps, pkg, eco, cache>>

\* lines 109-116 with getRegistry, lines 62-90
AddRegistry ==
  /\ pc = "add_registry"
  /\ \E reg \in RemoteRegistries, rcOk \in BOOLEAN, net \in NetOutcomes :
       LET r == AddGetRegistry(cache, rcOk, net, reg, now)
           o == [op EXCEPT !.netFetch = TRUE,
                           !.faults = @ \cup (IF rcOk /\ net = "ok" THEN {} ELSE {"network"})]
       IN /\ cache' = r.cache
          /\ IF r.result.kind = "returned"
               THEN /\ op' = [o EXCEPT !.registry = <<r.result.portals>>]
                    /\ pc' = "add_resolve"
               ELSE /\ op' = Exit(o, 1)
                    /\ pc' = "done"
  /\ UNCHANGED <<dirs, portals, portalsRoot, backups, temps, pkg, eco, now, pre, nOps>>

\* lines 118-158: the portal, its theme, the locator
AddResolve ==
  /\ pc = "add_resolve"
  /\ LET reg == op.registry[1]
     IN IF op.name \notin DOMAIN reg
          THEN pc' = "done" /\ op' = Exit(op, 1)
          ELSE IF op.theme \notin DOMAIN reg[op.name].themes
            THEN pc' = "done" /\ op' = Exit(op, 1)
            ELSE /\ pc' = "add_degit"
                 /\ op' = [op EXCEPT !.repo = ResolveLocator(reg[op.name].themes[op.theme]),
                                     !.version = VersionOf(reg[op.name])]
  /\ UNCHANGED <<dirs, portals, portalsRoot, backups, temps, pkg, eco, cache, now, pre, nOps>>

\* lines 171-175: degit creates portals/<name> with its parents
AddDegit ==
  /\ pc = "add_degit"
  /\ \/ \E snap \in Snapshots :
          /\ portals' = [portals EXCEPT ![op.name] = snap]
          /\ portalsRoot' = TRUE
          /\ op' = [op EXCEPT !.snapFetch = TRUE]
          /\ pc' = "add_meta"
     \/ \E left \in BOOLEAN :
          /\ portals' = [portals EXCEPT ![op.name] =
                            IF left THEN MkDir(NoFiles, <<>>) ELSE AbsentDir]
          /\ portalsRoot' = (portalsRoot \/ left)
          /\ op' = [op EXCEPT !.snapFetch = TRUE, !.faults = @ \cup {"degit"}]
          /\ pc' = "add_clone"
  /\ UNCHANGED <<dirs, backups, temps, pkg, eco, cache, now, pre, nOps>>

\* lines 195-201 without the rmSync of the temporary directory.
CleanupCloneKeepsTemp(ts, n) == ts

\* lines 195-198: the temporary clone directory is removed when it exists
CleanupClone(ts, n) == ts \ {CloneTemp(n)}

\* lines 176-206: git clone --depth 1 into temp-clone-<name>, then renameSync,
\* which needs portals/ to exist.  When git clone throws (having left the
\* temporary directory or not) or renameSync throws (the clone is there), the
\* catch block removes both directories and the process exits 1.
AddClone ==
  /\ pc = "add_clone"
  /\ \/ \E snap \in Snapshots :
          /\ portalsRoot
          /\ portals' = [portals EXCEPT ![op.name] = snap]
          /\ temps' = temps \ {CloneTemp(op.name)}
          /\ op' = op
          /\ pc' = "add_meta"
     \/ \E left \in BOOLEAN :
          /\ portals' = [portals EXCEPT ![op.name] = AbsentDir]
          /\ temps' = CleanupClone(IF left THEN temps \cup {CloneTemp(op.name)} ELSE temps,
                                   op.name)
          /\ op' = Exit([op EXCEPT !.faults = @ \cup {"clone"}], 1)
          /\ pc' = "done"
     \/ \* git clone succeeds; renameSync throws ENOENT, there is no portals/
        /\ ~portalsRoot
        /\ portals' = [portals EXCEPT ![op.name] = AbsentDir]
        /\ temps' = CleanupClone(temps \cup {CloneTemp(op.name)}, op.name)
        /\ op' = Exit([op EXCEPT !.faults = @ \cup {"clone", "rename"}], 1)
        /\ pc' = "done"
  /\ UNCHANGED <<dirs, portalsRoot, backups, pkg, eco, cache, now, pre, nOps>>

\* lines 208-221: a failing write leaves addPortal through main's catch
AddMeta ==
  /\ pc = "add_meta"
  /\ \/ /\ portals' = [portals EXCEPT ![op.name].meta =
                          <<PortalConfig(op.name, op.theme, op.repo, op.version, now)>>]
        /\ op' = op
        /\ pc' = "add_manifest"
     \/ /\ portals' = portals
        /\ op' = Exit([op EXCEPT !.faults = @ \cup {"meta"}], 1)
        /\ pc' = "done"
  /\ UNCHANGED <<dirs, portalsRoot, backups, temps, pkg, eco, cache, now, pre, nOps>>

\* A failing manifest update that ends the command through main's catch.
AfterManifestFailureStops == "done"

\* line 238-240: the catch block logs a warning and addPortal goes on
AfterManifestFailure == "add_eco"

\* lines 223-240: the workspace manifest; a failure is a warning
AddManifest ==
  /\ pc = "add_manifest"
  /\ \/ /\ pkg' = Register(pkg, op.name)
        /\ op' = [op EXCEPT !.wrote = IF RegisterWrites(pkg, op.name)
                                         THEN {"package.json"} ELSE {}]
        /\ pc' = "add_eco"
     \/ /\ pkg' = pkg
        /\ pc' = AfterManifestFailure
        /\ op' = IF AfterManifestFailure = "done"
                   THEN Exit([op EXCEPT !.faults = @ \cup {"workspaces"}], 1)
                   ELSE [op EXCEPT !.faults = @ \cup {"workspaces"}]
  /\ UNCHANGED <<dirs, portals, portalsRoot, backups, temps, eco, cache, now, pre, nOps>>

\* lines 242-334: the process-manager manifest, then pnpm install, then the
\* success message; a failing manifest update and a failing install are
\* warnings
AddEco ==
  /\ pc = "add_eco"
  /\ \E installFails \in BOOLEAN :
       LET o == IF installFails THEN [op EXCEPT !.faults = @ \cup {"install"}] ELSE op
       IN IF eco.present
            THEN \/ /\ eco' = EcoRegister(eco, op.name)
                    /\ op' = Exit([o EXCEPT !.wrote = @ \cup {"ecosystem.config.js"}], 0)
                 \/ /\ eco' = eco
                    /\ op' = Exit([o EXCEPT !.faults = @ \cup {"ecosystem"}], 0)
            ELSE eco' = eco /\ op' = Exit(o, 0)
  /\ pc' = "done"
  /\ UNCHANGED <<dirs, portals, portalsRoot, backups, temps, pkg, cache, now, pre, nOps>>

Next ==
  \/ AddStart \/ AddRegistry \/ AddResolve \/ AddDegit \/ AddClone \/ AddMeta
  \/ AddManifest \/ AddEco
  \/ UpdStart \/ UpdGit \/ UpdBackup \/ UpdFetch \/ UpdApply \/ UpdMeta \/ UpdDeps
  \/ UpdRestore
  \/ RemStart \/ RemConfirm \/ RemBackup \/ RemConfig \/ RemDelete

Spec == Init /\ [][Next]_vars

(***************************************************************************)
(* The manifest editors on their own.  The operator may have edited the two *)
(* manifest files: ManifestSpec starts from such files and applies the      *)
(* manifest steps of addPortal and removePortal, with no failing read or    *)
(* write, to any accepted name.                                             *)
(***************************************************************************)
PkgFiles ==
  { InitialPkg,
    [workspaces |-> <<>>, hasWorkspaces |-> FALSE, rest |-> "operator"],
    [workspaces |-> <<PackagesGlob, WsPath(cbt), [dir |-> "shared", name |-> <<>>]>>,
     hasWorkspaces |-> TRUE, rest |-> "operator"] }

EcoFiles ==
  { NoEcoFile,
    EcoFile(<<>>, "list", FALSE),
    EcoFile(<<apiApp, webApp>>, "list", FALSE),
    EcoFile(<<NewApp(cbt, BasePort), webApp, cronApp>>, "list", TRUE),
    EcoFile(<<apiApp, NewApp(cbt, BasePort)>>, "nomatch", TRUE),
    EcoFile(<<webApp, NewApp(cbt, BasePort)>>, "noeval", FALSE) }

ManifestInit ==
  /\ portals = [n \in PortalNames |-> AbsentDir]
  /\ portalsRoot = TRUE
  /\ backups = {}
  /\ temps = {}
  /\ pkg \in PkgFiles
  /\ eco \in EcoFiles
  /\ cache = InitialCache
  /\ now = 0
  /\ pc = "idle"
  /\ op = NoOp
  /\ dirs = InWorkspace
  /\ pre = Workspace
  /\ nOps = 0

\* addPortal steps 8 and 9, part_001 lines 223-289
ManifestAdd ==
  /\ CanStart
  /\ \E n \in InstallNames :
       /\ pkg' = Register(pkg, n)
       /\ eco' = IF eco.present THEN EcoRegister(eco, n) ELSE eco
       /\ op' = Exit([NewOp("add", n) EXCEPT !.wrote =
                        (IF RegisterWrites(pkg, n) THEN {"package.json"} ELSE {})
                        \cup (IF eco.present THEN {"ecosystem.config.js"} ELSE {})], 0)
  /\ pre' = Workspace
  /\ pc' = "done"
  /\ nOps' = nOps + 1
  /\ now' = ClockAtStart
  /\ UNCHANGED <<dirs, portals, portalsRoot, backups, temps, cache>>

\* removeFromWorkspaces and removeFromEcosystem, portal-remove.js lines 130-186
ManifestRemove ==
  /\ CanStart
  /\ \E n \in InstallNames :
       /\ pkg' = Deregister(pkg, n)
       /\ eco' = EcoDeregister(eco, n)
       /\ op' = Exit([NewOp("remove", n) EXCEPT !.wrote = WrittenByRemove(pkg, eco, n)], 0)
  /\ pre' = Workspace
  /\ pc' = "done"
  /\ nOps' = nOps + 1
  /\ now' = ClockAtStart
  /\ UNCHANGED <<dirs, portals, portalsRoot, backups, temps, cache>>

ManifestNext == ManifestAdd \/ ManifestRemove

ManifestSpec == ManifestInit /\ [][ManifestNext]_vars

(***************************************************************************)
(* getRegistry on its own.  RegistrySpec starts from any cache file (none,  *)
(* one that does not parse, the seeded one or a fetched one, stamped at any *)
(* time up to MaxTime, later than the first call included) and calls the   *)
(* getRegistry of portal-list and the one of portal-add at times that do    *)
(* not go back, with every outcome of reading .edutechrc and of the fetch.  *)
(***************************************************************************)
CacheFiles ==
  {NoCacheFile, BrokenCacheFile}
  \cup {[InitialCache EXCEPT !.lastFetched = t] : t \in 0..MaxTime}
  \cup {CacheEntry(reg, t) : reg \in RemoteRegistries, t \in 0..MaxTime}

RegistryInit ==
  /\ portals = [n \in PortalNames |-> AbsentDir]
  /\ portalsRoot = TRUE
  /\ backups = {}
  /\ temps = {}
  /\ pkg = InitialPkg
  /\ eco = NoEcoFile
  /\ cache \in CacheFiles
  /\ now = 0
  /\ pc = "idle"
  /\ op = NoOp
  /\ dirs = InWorkspace
  /\ pre = Workspace
  /\ nOps = 0

\* What a call leaves in op: its inputs, what getRegistry gave, and whether
\* the call before it had fetched the registry from the network.
Call(rcOk, net, r) ==
  <<[rcOk |-> rcOk, net |-> net, result |-> r.result, fetched |-> r.fetched,
     afterFetch |-> (op.call # <<>> /\ op.call[1].result.kind = "returned"
                       /\ op.call[1].result.from = "network")]>>

\* part_002 lines 276, 353, 448, 454: portal-list calls getRegistry
ListGetsRegistry ==
  /\ CanStart
  /\ \E t \in now..MaxTime, forceRefresh \in BOOLEAN, rcOk \in BOOLEAN,
        net \in NetOutcomes, reg \in RemoteRegistries :
       LET r == GetRegistry(cache, forceRefresh, rcOk, net, reg, t)
       IN /\ cache' = r.cache
          /\ now' = t
          /\ op' = [NewOp("list", <<>>) EXCEPT !.force = forceRefresh,
                                                !.call = Call(rcOk, net, r)]
  /\ pre' = Workspace
  /\ pc' = "done"
  /\ nOps' = nOps + 1
  /\ UNCHANGED <<dirs, portals, portalsRoot, backups, temps, pkg, eco>>

\* part_001 line 112: portal-add calls its getRegistry
AddGetsRegistry ==
  /\ CanStart
  /\ \E t \in now..MaxTime, rcOk \in BOOLEAN, net \in NetOutcomes,
        reg \in RemoteRegistries :
       LET r == AddGetRegistry(cache, rcOk, net, reg, t)
       IN /\ cache' = r.cache
          /\ now' = t
          /\ op' = [NewOp("add", <<>>) EXCEPT !.call = Call(rcOk, net, r)]
  /\ pre' = Workspace
  /\ pc' = "done"
  /\ nOps' = nOps + 1
  /\ UNCHANGED <<dirs, portals, portalsRoot, backups, temps, pkg, eco>>

RegistryNext == ListGetsRegistry \/ AddGetsRegistry

RegistrySpec == RegistryInit /\ [][RegistryNext]_vars

(***************************************************************************)
(* portal-update on a workspace in which addPortal has installed portal    *)
(* cbt (either snapshot, metadata written at time 0, path registered):     *)
(* UpdateSpec runs update commands only, one after the other.              *)
(***************************************************************************)
InstalledPortals ==
  { MkDir(snap.files,
          <<PortalConfig(cbt, "default", ResolveLocator(shortLocator),
                         VersionOf(registryA.portals[cbt]), 0)>>) : snap \in Snapshots }

UpdateInit ==
  /\ \E d \in InstalledPortals :
       portals = [n \in PortalNames |-> IF n = cbt THEN d ELSE AbsentDir]
  /\ portalsRoot = TRUE
  /\ backups = {}
  /\ temps = {}
  /\ pkg = Register(InitialPkg, cbt)
  /\ eco = NoEcoFile
  /\ cache = CacheEntry(registryA, 0)
  /\ now = 0
  /\ pc = "idle"
  /\ op = NoOp
  /\ dirs = InWorkspace
  /\ pre = Workspace
  /\ nOps = 0

UpdateNext ==
  \/ UpdStart \/ UpdGit \/ UpdBackup \/ UpdFetch \/ UpdApply \/ UpdMeta \/ UpdDeps
  \/ UpdRestore

UpdateSpec == UpdateInit /\ [][UpdateNext]_vars

(***************************************************************************)
(* 'portal-update all' on a workspace in which addPortal has installed the *)
(* portals cbt and fin: UpdateAllSpec runs 'update all' commands only.     *)
(***************************************************************************)
InstalledFin ==
  MkDir([f \in Files |-> 1],
        <<PortalConfig(fin, "default", ResolveLocator(urlLocator),
                       VersionOf(registryA.portals[fin]), 0)>>)

UpdateAllInit ==
  /\ \E d \in InstalledPortals :
       portals = [n \in PortalNames |-> IF n = cbt THEN d
                                        ELSE IF n = fin THEN InstalledFin
                                        ELSE AbsentDir]
  /\ portalsRoot = TRUE
  /\ backups = {}
  /\ temps = {}
  /\ pkg = Register(Register(InitialPkg, cbt), fin)
  /\ eco = NoEcoFile
  /\ cache = CacheEntry(registryA, 0)
  /\ now = 0
  /\ pc = "idle"
  /\ op = NoOp
  /\ dirs = InWorkspace
  /\ pre = Workspace
  /\ nOps = 0

UpdateAllNext ==
  \/ UpdAllStart \/ UpdAllNext
  \/ UpdGit \/ UpdBackup \/ UpdFetch \/ UpdApply \/ UpdMeta \/ UpdDeps \/ UpdRestore

UpdateAllSpec == UpdateAllInit /\ [][UpdateAllNext]_vars


(***************************************************************************)
(* The two backup functions on their own, on a workspace in which portal   *)
(* cbt is installed.  BackupSpec calls backupPortal and createBackup at    *)
(* any reading of the wall clock, the reading of an earlier call included  *)
(* (two invocations in the same millisecond, or a clock that was set       *)
(* back), while the operator edits the portal between the calls.           *)
(***************************************************************************)
BackupInit == UpdateInit

\* Time passes between two calls.
ClockTick ==
  /\ pc \in {"idle", "done"}
  /\ now < MaxTime
  /\ now' = now + 1
  /\ UNCHANGED <<dirs, portals, portalsRoot, backups, temps, pkg, eco, cache, pc, op, pre, nOps>>

\* The operator edits a source file of the portal.
EditPortal ==
  /\ pc \in {"idle", "done"}
  /\ \E v \in 1..2 :
       /\ portals[cbt].files["app.js"] # v
       /\ portals' = [portals EXCEPT ![cbt].files["app.js"] = v]
  /\ UNCHANGED <<dirs, portalsRoot, backups, temps, pkg, eco, cache, now, pc, op, pre, nOps>>

\* backupPortal(cbt), portal-update.js lines 41-55
CallBackupPortal ==
  /\ CanStart
  /\ backups' = BackupPortal(cbt)
  /\ op' = Exit([NewOp("update", cbt) EXCEPT !.backupDir = <<UpdateBackupLoc(cbt)>>,
                                             !.backedUp = TRUE], 0)
  /\ pc' = "done"
  /\ pre' = Workspace
  /\ nOps' = nOps + 1
  /\ UNCHANGED <<dirs, portals, portalsRoot, temps, pkg, eco, cache, now>>

\* createBackup(cbt, 'portals/cbt'), portal-remove.js lines 188-211
CallCreateBackup ==
  /\ CanStart
  /\ backups' = CreateBackup(cbt)
  /\ op' = Exit([NewOp("remove", cbt) EXCEPT !.backupDir = <<RemoveBackupLoc(cbt)>>,
                                             !.backedUp = TRUE], 0)
  /\ pc' = "done"
  /\ pre' = Workspace
  /\ nOps' = nOps + 1
  /\ UNCHANGED <<dirs, portals, portalsRoot, temps, pkg, eco, cache, now>>

BackupNext == ClockTick \/ EditPortal \/ CallBackupPortal \/ CallCreateBackup

BackupSpec == BackupInit /\ [][BackupNext]_vars


(***************************************************************************)
(* portal-list.js: the installed portals.  ListSpec starts from a portals  *)
(* root as the operator may have left it (absent; entries cbt and fin each *)
(* absent, a directory without or with a metadata file, or a plain file)   *)
(* and runs getInstalledPortals and showPortalDetails.                     *)
(***************************************************************************)
\* value || fallback, on strings
OrElse(v, fallback) == IF v = "" THEN fallback ELSE v

\* lines 129-154: the record of one entry of portals/.  installedAt and repo
\* are <<>> where the code puts 'unknown'; described tells whether a
\* package.json gave the description.
PortalRecord(n, d) ==
  [name |-> n, installed |-> TRUE,
   theme |-> IF d.meta = <<>> THEN "default" ELSE OrElse(d.meta[1].theme, "default"),
   version |-> IF d.meta = <<>> THEN "unknown" ELSE OrElse(d.meta[1].version, "unknown"),
   installedAt |-> IF d.meta = <<>> THEN <<>> ELSE <<d.meta[1].installedAt>>,
   repo |-> IF d.meta = <<>> THEN <<>> ELSE <<d.meta[1].repo>>,
   described |-> d.files["package.json"] # 0,
   path |-> <<"portals", n>>]

\* getInstalledPortals, lines 121-158: one record per entry that readdir
\* returns, [] without the portals root.
GetInstalledPortals ==
  IF ~portalsRoot
    THEN {}
    ELSE { PortalRecord(n, portals[n]) : n \in { m \in PortalNames : portals[m].present } }

\* portals.find(p => p.name === portalName), line 346
Find(listing, n) ==
  IF \E r \in listing : r.name = n
    THEN <<CHOOSE r \in listing : r.name = n>>
    ELSE <<>>

ListEntries ==
  { AbsentDir, PlainFile, MkDir([f \in Files |-> 1], <<>>), MkDir(NoFiles, <<>>) }
  \cup InstalledPortals
  \cup { MkDir([f \in Files |-> 1],
               <<PortalConfig(fin, "silk", ResolveLocator(sshLocator), "", 1)>>) }

ListInit ==
  /\ portalsRoot \in BOOLEAN
  /\ \E c \in ListEntries, f \in ListEntries :
       portals = [n \in PortalNames |-> IF ~portalsRoot THEN AbsentDir
                                        ELSE IF n = cbt THEN c
                                        ELSE IF n = fin THEN f
                                        ELSE AbsentDir]
  /\ backups = {}
  /\ temps = {}
  /\ pkg = InitialPkg
  /\ eco = NoEcoFile
  /\ cache = InitialCache
  /\ now = 0
  /\ pc = "idle"
  /\ op = NoOp
  /\ dirs = InWorkspace
  /\ pre = Workspace
  /\ nOps = 0

\* 'portal-list', main: the installed portals
ListInstalled ==
  /\ CanStart
  /\ op' = Exit([NewOp("installed", <<>>) EXCEPT !.listing = GetInstalledPortals], 0)
  /\ pc' = "done"
  /\ pre' = Workspace
  /\ nOps' = nOps + 1
  /\ now' = ClockAtStart
  /\ UNCHANGED <<dirs, portals, portalsRoot, backups, temps, pkg, eco, cache>>

\* showPortalDetails, lines 344-370
ShowPortalDetails ==
  /\ CanStart
  /\ \E n \in PortalNames :
       op' = Exit([NewOp("details", n) EXCEPT !.listing = GetInstalledPortals,
                                             !.found = Find(GetInstalledPortals, n)], 0)
  /\ pc' = "done"
  /\ pre' = Workspace
  /\ nOps' = nOps + 1
  /\ now' = ClockAtStart
  /\ UNCHANGED <<dirs, portals, portalsRoot, backups, temps, pkg, eco, cache>>

ListNext == ListInstalled \/ ShowPortalDetails

ListSpec == ListInit /\ [][ListNext]_vars


(***************************************************************************)
(* The portals root after the last portal is removed.  RemoveThenAddSpec    *)
(* starts with portal cbt installed and runs remove, add and the listing    *)
(* one after the other.                                                     *)
(***************************************************************************)
RemoveThenAddInit == UpdateInit

RemoveThenAddNext ==
  \/ RemStart \/ RemConfirm \/ RemBackup \/ RemConfig \/ RemDelete
  \/ AddStart \/ AddRegistry \/ AddResolve \/ AddDegit \/ AddClone \/ AddMeta
  \/ AddManifest \/ AddEco
  \/ ListInstalled

RemoveThenAddSpec == RemoveThenAddInit /\ [][RemoveThenAddNext]_vars


(***************************************************************************)
(* Two invocations at once.  Each is its own process: between its read of  *)
(* a manifest file and its write of that file the other one may run.       *)
(* ConcurrentSpec runs the manifest steps of two invocations, one about     *)
(* portal cbt and one about portal fin, each an add or a remove, in every   *)
(* interleaving; pc and op hold the position and the locals of each.        *)
(***************************************************************************)
Invocations == {1, 2}

InvocationName(i) == IF i = 1 THEN cbt ELSE fin

\* A write made from the file as it is on disk at the time of the write, as
\* under a lock.
ManifestToWriteLocked(read, onDisk) == onDisk

\* part_001 lines 226-235, portal-remove.js lines 132-148: the document that
\* is edited and written is the one this invocation read.
ManifestToWrite(read, onDisk) == read

ConcurrentInit ==
  /\ \E d \in InstalledPortals :
       portals = [n \in PortalNames |-> IF n = cbt THEN d
                                        ELSE IF n = fin THEN InstalledFin
                                        ELSE AbsentDir]
  /\ portalsRoot = TRUE
  /\ backups = {}
  /\ temps = {}
  /\ pkg \in PkgFiles
  /\ eco \in EcoFiles
  /\ cache = InitialCache
  /\ now = 0
  /\ pc = [i \in Invocations |-> "idle"]
  /\ op = [i \in Invocations |-> <<>>]
  /\ dirs = InWorkspace
  /\ pre = Workspace
  /\ nOps = 0

Unshared == <<portals, portalsRoot, backups, temps, cache, now, pre, dirs>>

\* An invocation reaches its manifest steps.
ConcStart ==
  /\ \E i \in Invocations, kind \in {"add", "remove"} :
       /\ pc[i] = "idle"
       /\ pc' = [pc EXCEPT ![i] = "read_pkg"]
       /\ op' = [op EXCEPT ![i] = [kind |-> kind, name |-> InvocationName(i),
                                   pkgRead |-> <<>>, ecoRead |-> <<>>]]
  /\ nOps' = nOps + 1
  /\ UNCHANGED <<dirs, pkg, eco>>
  /\ UNCHANGED Unshared

\* readFile('package.json') and JSON.parse
ConcReadPkg ==
  /\ \E i \in Invocations :
       /\ pc[i] = "read_pkg"
       /\ pc' = [pc EXCEPT ![i] = "write_pkg"]
       /\ op' = [op EXCEPT ![i].pkgRead = <<pkg>>]
  /\ UNCHANGED <<dirs, pkg, eco, nOps>>
  /\ UNCHANGED Unshared

\* the edit and writeFile('package.json'), when the edit changes the list
ConcWritePkg ==
  /\ \E i \in Invocations :
       /\ pc[i] = "write_pkg"
       /\ LET doc == ManifestToWrite(op[i].pkgRead[1], pkg)
              n == op[i].name
          IN pkg' = IF op[i].kind = "add"
                      THEN (IF RegisterWrites(doc, n) THEN Register(doc, n) ELSE pkg)
                      ELSE (IF DeregisterWrites(doc, n) THEN Deregister(doc, n) ELSE pkg)
       /\ pc' = [pc EXCEPT ![i] = "read_eco"]
  /\ UNCHANGED <<dirs, eco, op, nOps>>
  /\ UNCHANGED Unshared

\* exists('ecosystem.config.js') and readFile
ConcReadEco ==
  /\ \E i \in Invocations :
       /\ pc[i] = "read_eco"
       /\ IF eco.present
            THEN /\ pc' = [pc EXCEPT ![i] = "write_eco"]
                 /\ op' = [op EXCEPT ![i].ecoRead = <<eco>>]
            ELSE /\ pc' = [pc EXCEPT ![i] = "done"]
                 /\ op' = op
  /\ UNCHANGED <<dirs, pkg, eco, nOps>>
  /\ UNCHANGED Unshared

\* the edit and writeFile('ecosystem.config.js')
ConcWriteEco ==
  /\ \E i \in Invocations :
       /\ pc[i] = "write_eco"
       /\ LET doc == ManifestToWrite(op[i].ecoRead[1], eco)
              n == op[i].name
          IN eco' = IF op[i].kind = "add"
                      THEN EcoRegister(doc, n)
                      ELSE (IF EcoDeregisterWrites(doc, n) THEN EcoDeregister(doc, n) ELSE eco)
       /\ pc' = [pc EXCEPT ![i] = "done"]
  /\ UNCHANGED <<dirs, pkg, op, nOps>>
  /\ UNCHANGED Unshared

ConcurrentNext ==
  ConcStart \/ ConcReadPkg \/ ConcWritePkg \/ ConcReadEco \/ ConcWriteEco

ConcurrentSpec == ConcurrentInit /\ [][ConcurrentNext]_vars


(***************************************************************************)
(* Commands that succeed, one after the other.  SequenceSpec starts from   *)
(* the workspace createWorkspace leaves, without or with an empty           *)
(* ecosystem.config.js, and runs up to MaxSeq add and remove commands on    *)
(* the portals of the registry, each from its first step to its success     *)
(* message with no step failing.                                            *)
(***************************************************************************)
RegistryNames == DOMAIN registryA.portals

SequenceInit == Init

\* addPortal, part_001 lines 95-334, on its success path
AddSucceeds ==
  /\ pc \in {"idle", "done"} /\ nOps < MaxSeq
  /\ \E n \in RegistryNames, snap \in Snapshots :
       LET repo == ResolveLocator(registryA.portals[n].themes["default"])
           version == VersionOf(registryA.portals[n])
       IN /\ ValidName(n) /\ ~AlreadyExists(n)
          /\ portals' = [portals EXCEPT ![n] =
                           [snap EXCEPT !.meta = <<PortalConfig(n, "default", repo, version,
                                                                ClockAtStart)>>]]
          /\ portalsRoot' = TRUE
          /\ pkg' = Register(pkg, n)
          /\ eco' = IF eco.present THEN EcoRegister(eco, n) ELSE eco
          /\ cache' = CacheEntry(registryA, ClockAtStart)
          /\ op' = Exit([NewOp("add", n) EXCEPT !.repo = repo, !.version = version,
                                                !.netFetch = TRUE, !.snapFetch = TRUE], 0)
  /\ pc' = "done"
  /\ pre' = Workspace
  /\ nOps' = nOps + 1
  /\ now' = ClockAtStart
  /\ UNCHANGED <<dirs, backups, temps>>

\* removePortal --force, portal-remove.js lines 213-332, on its success path
RemoveSucceeds ==
  /\ pc \in {"idle", "done"} /\ nOps < MaxSeq
  /\ \E n \in RegistryNames :
       /\ portals[n].present
       /\ portals' = [portals EXCEPT ![n] = AbsentDir]
       /\ portalsRoot' = (portalsRoot /\ \E m \in PortalNames \ {n} : portals[m].present)
       /\ pkg' = Deregister(pkg, n)
       /\ eco' = EcoDeregister(eco, n)
       /\ op' = Exit([NewOp("remove", n) EXCEPT !.force = TRUE,
                                                !.wrote = WrittenByRemove(pkg, eco, n)], 0)
  /\ pc' = "done"
  /\ pre' = Workspace
  /\ nOps' = nOps + 1
  /\ now' = ClockAtStart
  /\ UNCHANGED <<dirs, backups, temps, cache>>

SequenceNext == AddSucceeds \/ RemoveSucceeds

SequenceSpec == SequenceInit /\ [][SequenceNext]_vars


(***************************************************************************)
(* create-edutech (README.md).  CreateSpec starts in a directory where the *)
(* entry <institution>-workspace, and the entry of that name in the parent *)
(* directory, are each absent or some other directory, and runs            *)
(* createWorkspace with any of its steps failing.                          *)
(***************************************************************************)
NoPkgFile == [workspaces |-> <<>>, hasWorkspaces |-> FALSE, rest |-> "absent"]

\* The steps after the working directory was changed, lines 247-437: git
\* init, package.json, the directories, .edutechrc, turbo.json with README.md
\* and the scripts, the registry cache, npm install, .gitignore with the
\* initial commit.
CreateSteps == <<"git", "package", "dirs", "rc", "files", "cache", "turbo", "commit">>

\* lines 483-486: process.chdir('..') and then the relative name: the entry
\* of the start directory when the working directory had been changed, the
\* entry of its parent when it had not.
CleanupTarget(cwd) == IF cwd = "workspace" THEN "here" ELSE "above"

CreateInit ==
  /\ portals = [n \in PortalNames |-> AbsentDir]
  /\ portalsRoot = FALSE
  /\ backups = {}
  /\ temps = {}
  /\ pkg = NoPkgFile
  /\ eco = NoEcoFile
  /\ cache = NoCacheFile
  /\ now = 0
  /\ pc = "idle"
  /\ op = NoOp
  /\ dirs \in [{"here", "above"} -> {"absent", "other"}]
  /\ pre = Workspace
  /\ nOps = 0

\* lines 222-243: the usage test and the existence test
CreateStart ==
  /\ CanStart
  /\ \E institution \in BOOLEAN :
       IF ~institution \/ dirs.here # "absent"
         THEN pc' = "done" /\ op' = Exit(NewOp("create", <<>>), 1)
         ELSE pc' = "cw_mkdir" /\ op' = NewOp("create", <<>>)
  /\ pre' = Workspace
  /\ nOps' = nOps + 1
  /\ now' = ClockAtStart
  /\ UNCHANGED <<portals, portalsRoot, backups, temps, pkg, eco, cache, dirs>>

\* lines 245-246: mkdir and process.chdir; either may throw
CreateMkdir ==
  /\ pc = "cw_mkdir"
  /\ \/ /\ dirs' = [dirs EXCEPT !.here = "workspace"]
        /\ op' = [op EXCEPT !.cwd = "workspace", !.step = 1]
        /\ pc' = "cw_step"
     \/ /\ dirs' = dirs
        /\ op' = [op EXCEPT !.faults = @ \cup {"mkdir"}]
        /\ pc' = "cw_cleanup"
     \/ /\ dirs' = [dirs EXCEPT !.here = "workspace"]
        /\ op' = [op EXCEPT !.faults = @ \cup {"chdir"}]
        /\ pc' = "cw_cleanup"
  /\ UNCHANGED <<portals, portalsRoot, backups, temps, pkg, eco, cache, now, pre, nOps>>

\* lines 247-437, one step at a time; a step that throws goes to the catch
CreateStep ==
  /\ pc = "cw_step"
  /\ LET what == CreateSteps[op.step]
     IN \/ /\ pkg' = IF what = "package" THEN InitialPkg ELSE pkg
           /\ portalsRoot' = (portalsRoot \/ what = "dirs")
           /\ cache' = IF what = "cache"
                         THEN [InitialCache EXCEPT !.lastFetched = now]
                         ELSE cache
           /\ IF op.step = Len(CreateSteps)
                THEN pc' = "done" /\ op' = Exit(op, 0)
                ELSE pc' = "cw_step" /\ op' = [op EXCEPT !.step = @ + 1]
        \/ /\ UNCHANGED <<pkg, portalsRoot, cache>>
           /\ op' = [op EXCEPT !.faults = @ \cup {what}]
           /\ pc' = "cw_cleanup"
  /\ UNCHANGED <<portals, backups, temps, eco, now, pre, nOps, dirs>>

\* lines 480-495: the catch block; an error of the cleanup is ignored
CreateCleanup ==
  /\ pc = "cw_cleanup"
  /\ LET target == CleanupTarget(op.cwd)
     IN \/ /\ dirs[target] # "absent"
           /\ dirs' = [dirs EXCEPT ![target] = "absent"]
           /\ IF dirs[target] = "workspace"
                THEN pkg' = NoPkgFile /\ portalsRoot' = FALSE /\ cache' = NoCacheFile
                ELSE UNCHANGED <<pkg, portalsRoot, cache>>
        \/ \* nothing of that name, or chdir or rmSync throws
           UNCHANGED <<dirs, pkg, portalsRoot, cache>>
  /\ op' = Exit(op, 1)
  /\ pc' = "done"
  /\ UNCHANGED <<portals, backups, temps, eco, now, pre, nOps>>

CreateNext == CreateStart \/ CreateMkdir \/ CreateStep \/ CreateCleanup

CreateSpec == CreateInit /\ [][CreateNext]_vars

(***************************************************************************)
(* The first commands in a workspace that createWorkspace has just made:   *)
(* the registry cache is the seeded one, stamped with the time of the      *)
(* creation (0); portal-add and the getRegistry of portal-list follow.     *)
(***************************************************************************)
FirstHourInit == Init

FirstHourNext ==
  \/ AddStart \/ AddRegistry \/ AddResolve \/ AddDegit \/ AddClone \/ AddMeta
  \/ AddManifest \/ AddEco
  \/ ListGetsRegistry

FirstHourSpec == FirstHourInit /\ [][FirstHourNext]_vars


(***************************************************************************)
(* Properties.  A command that has ended is at pc = "done" with its        *)
(* arguments and locals still in op and the workspace it started from in   *)
(* pre.                                                                    *)
(***************************************************************************)
Ended(kind) == pc = "done" /\ op.kind = kind

UpdatePcs == {"upd_git", "upd_backup", "upd_fetch", "upd_apply", "upd_meta",
              "upd_deps", "upd_restore"}

\* The answers that say yes in so many words.
ExplicitYes == {<<"y">>, <<"Y">>, <<"y","e","s">>, <<"Y","E","S">>, <<"Y","e","s">>}

\* The name pattern, read off the claim: one or more characters, each a
\* lower-case letter, a digit or a hyphen.
RECURSIVE FullyMatches(_)
FullyMatches(n) ==
  IF n = <<>> THEN FALSE
  ELSE /\ Head(n) \in NameChars
       /\ (Tail(n) = <<>> \/ FullyMatches(Tail(n)))

\* C1: an update that fails at the fetch, the force-mode delete or rename, a
\* merge copy or the metadata write, after its backup was created, ends with
\* portals/<name> as it was before the update and with exit code 1.
C1_FailedUpdateRestoresPortal ==
  (Ended("update") /\ op.backedUp
     /\ op.faults # {}
     /\ op.faults \subseteq {"fetch", "empty", "delete", "rename", "merge", "meta"})
  => (portals[op.name] = pre.portals[op.name] /\ op.exit = 1)

\* C2: no step of an update changes a live portal directory before
\* backupPortal has returned; an update whose backup fails exits 1 with the
\* portal directories unchanged, no snapshot fetched and no temporary directory.
C2_NoLiveWriteBeforeBackup ==
  [][ /\ (pc \in UpdatePcs /\ portals' # portals) => op.backedUp
      /\ (pc' = "done" /\ op'.kind = "update" /\ "backup" \in op'.faults)
           => (op'.exit = 1 /\ portals' = pre'.portals /\ ~op'.snapFetch
               /\ temps' = pre'.temps) ]_vars

C2_Witness ==
  /\ Ended("update") /\ "backup" \in op.faults /\ op.exit = 1
  /\ portals[op.name].present /\ ~op.snapFetch

\* C3: an update without force of a checkout with uncommitted changes exits 1
\* and leaves the whole workspace as it was: the portal directory with its
\* metadata file, the backups and the temporary directories.
C3_DirtyUpdateChangesNothing ==
  (Ended("update") /\ op.config # <<>> /\ op.git = "dirty" /\ ~op.force)
  => (op.exit = 1 /\ Workspace = pre /\ ~op.backedUp /\ ~op.snapFetch)

C3_Witness ==
  /\ Ended("update") /\ op.config # <<>> /\ op.git = "dirty" /\ ~op.force
  /\ op.exit = 1 /\ portals[op.name].meta = op.config

\* The portal directory of the remove command that ended is gone, and was
\* there when the command started.
RemovedDir ==
  Ended("remove") /\ pre.portals[op.name].present /\ ~portals[op.name].present

\* The remove command created a backup directory that is still there and not
\* empty.
BackupCreated ==
  /\ op.backedUp
  /\ \E b \in backups : b.loc = op.backupDir[1] /\ NonEmptyBackup(b)

\* C4 as stated: a remove called with backup = true deletes the portal
\* directory only if a non-empty backup directory was created first, whatever
\* the answers to the prompts.
C4_Original ==
  (RemovedDir /\ op.backupArg) => BackupCreated

\* C4 amended: a remove called with backup = true deletes the portal directory
\* only if a non-empty backup directory was created first, or the operator
\* answered no to "Create a backup before removal?" (asked without force
\* only), or the backup failed and the operator answered yes to "Continue
\* without backup?".
C4_DeleteNeedsBackupOrConsent ==
  (RemovedDir /\ op.backupArg)
  => \/ BackupCreated
     \/ (~op.force /\ ~op.backup /\ "backup" \notin op.faults)
     \/ ("backup" \in op.faults /\ op.contAnswer # <<>> /\ op.contAnswer[1] \in ExplicitYes)

C4_Witness ==
  /\ RemovedDir /\ op.backupArg /\ BackupCreated
  /\ (CHOOSE b \in backups : b.loc = op.backupDir[1]).tree = pre.portals[op.name]

\* C5: when the backup of a remove fails and the answer to "Continue without
\* backup?" is not an explicit yes, the command stops with the portal
\* directories, the workspace manifest and the process-manager manifest
\* unchanged.
C5_NoConsentNoRemoval ==
  (Ended("remove") /\ "backup" \in op.faults /\ op.contAnswer # <<>>
     /\ op.contAnswer[1] \notin ExplicitYes)
  => (portals = pre.portals /\ pkg = pre.pkg /\ eco = pre.eco)

C5_Witness ==
  /\ Ended("remove") /\ "backup" \in op.faults /\ op.contAnswer = << <<>> >>
  /\ portals[op.name].present /\ portals = pre.portals

\* C6: in a run where no step of the command fails, remove with force and
\* without backup of an existing portal ends with exit code 0, portals/<name>
\* absent, no backup directory created and "portals/<name>" not in workspaces.
C6_ForceRemoveNoBackup ==
  (Ended("remove") /\ op.force /\ ~op.backupArg /\ pre.portals[op.name].present
     /\ op.faults = {})
  => /\ op.exit = 0
     /\ ~portals[op.name].present
     /\ backups = pre.backups
     /\ \A i \in 1..Len(pkg.workspaces) : pkg.workspaces[i] # WsPath(op.name)

C6_Witness ==
  /\ Ended("remove") /\ op.force /\ ~op.backupArg /\ op.faults = {}
  /\ \E i \in 1..Len(pre.pkg.workspaces) : pre.pkg.workspaces[i] = WsPath(op.name)
  /\ ~portals[op.name].present

\* The descriptor of the portal that the add command resolved.
AddedDescriptor == op.registry[1][op.name]

\* What C7 says of a successful add, but for the version.
AddedAsRequested ==
  /\ FullyMatches(op.name)
  /\ ~pre.portals[op.name].present
  /\ portals[op.name].present
  /\ portals[op.name].meta # <<>>
  /\ portals[op.name].meta[1].name = op.name
  /\ portals[op.name].meta[1].theme = op.theme
  /\ portals[op.name].meta[1].repo = op.repo
  /\ op.repo \in {AddedDescriptor.themes[op.theme],
                  GithubPrefix \o AddedDescriptor.themes[op.theme]}
  /\ portals[op.name].meta[1].source = "registry"

\* C7 as stated: add succeeds only for a name that had no directory, and then
\* the metadata file holds the requested name and theme, the resolved locator,
\* the version of the registry descriptor and source "registry".
C7_Original ==
  (Ended("add") /\ op.exit = 0)
  => (AddedAsRequested /\ portals[op.name].meta[1].version = AddedDescriptor.version)

\* C7 amended: as stated, with version = the version of the registry
\* descriptor when it has one and "1.0.0" when it has none.
C7_AddWritesMetadata ==
  (Ended("add") /\ op.exit = 0)
  => /\ AddedAsRequested
     /\ portals[op.name].meta[1].version =
          IF AddedDescriptor.version = "" THEN "1.0.0" ELSE AddedDescriptor.version

C7_Witness ==
  /\ Ended("add") /\ op.exit = 0 /\ op.name = cbt
  /\ portals[cbt].meta[1].version = "1.0.0"
  /\ portals[cbt].meta[1].repo = GithubPrefix \o shortLocator
  /\ \E i \in 1..Len(pkg.workspaces) : pkg.workspaces[i] = WsPath(cbt)

\* C8: add with a name that does not fully match the pattern exits 1 with the
\* workspace unchanged, no registry fetch and no snapshot fetch.
C8_InvalidNameRejectedFirst ==
  (Ended("add") /\ ~FullyMatches(op.name))
  => (op.exit = 1 /\ Workspace = pre /\ ~op.netFetch /\ ~op.snapFetch
      /\ op.registry = <<>>)

C8_Witness ==
  Ended("add") /\ op.name = invalidName /\ op.exit = 1 /\ ~op.netFetch

\* The add command was rejected because the registry lacks the portal or the
\* portal lacks the theme.
RejectedByRegistry ==
  /\ Ended("add") /\ op.registry # <<>> /\ op.repo = <<>>

\* C9 as stated: such a rejection exits 1 and has changed nothing in the
\* workspace, the registry cache file included.
C9_Original ==
  RejectedByRegistry => (op.exit = 1 /\ Workspace = pre)

\* C9 amended: such a rejection exits 1 and has changed nothing in the
\* workspace but the registry cache file, which getRegistry has rewritten with
\* the fetched registry and the current time when the network fetch succeeded
\* and has left alone when it failed.
C9_RejectionOnlyRefreshesCache ==
  RejectedByRegistry
  => /\ op.exit = 1
     /\ [Workspace EXCEPT !.cache = pre.cache] = pre
     /\ IF "network" \in op.faults
          THEN cache = pre.cache
          ELSE /\ cache.portals = op.registry[1]
               /\ cache.lastFetched = now
               /\ cache.lastFetched > pre.cache.lastFetched

C9_Witness ==
  /\ RejectedByRegistry /\ "network" \notin op.faults /\ op.name = cbt
  /\ op.theme = "silk" /\ cache # pre.cache

\* C10: add of a name whose directory exists, with or without a metadata
\* file, exits 1 and leaves the directory, the registry cache and both
\* manifests unchanged.
C10_ExistingDirRejected ==
  (Ended("add") /\ pre.portals[op.name].present)
  => (op.exit = 1 /\ portals = pre.portals /\ cache = pre.cache
      /\ pkg = pre.pkg /\ eco = pre.eco /\ ~op.netFetch)

C10_Witness ==
  /\ Ended("add") /\ pre.portals[op.name].present /\ pre.portals[op.name].meta = <<>>
  /\ op.exit = 1

\* C11: when the shallow-snapshot tool and then the depth-1 clone with its
\* relocation both fail, add exits 1 and afterwards neither portals/<name>
\* nor temp-clone-<name> exists (so no metadata file either) and both
\* manifests are as they were.
C11_FailedCloneCleansUp ==
  (Ended("add") /\ {"degit", "clone"} \subseteq op.faults)
  => /\ op.exit = 1
     /\ ~portals[op.name].present
     /\ CloneTemp(op.name) \notin temps
     /\ pkg = pre.pkg /\ eco = pre.eco

C11_Witness ==
  /\ Ended("add") /\ {"degit", "clone"} \subseteq op.faults /\ op.exit = 1
  /\ op.repo # <<>> /\ ~portals[op.name].present

\* The locator the registry gives for the theme the add command asked for.
ThemeLocator == AddedDescriptor.themes[op.theme]

\* The add command has written the metadata file.
AddWroteMetadata ==
  op.kind = "add" /\ (pc \in {"add_manifest", "add_eco"} \/ (pc = "done" /\ op.exit = 0))

\* C12: the locator add fetches from, and records as repo when it writes the
\* metadata file, is the registry's theme locator unchanged when that contains
\* "://" or starts with "git@", and that locator after "https://github.com/"
\* otherwise.
C12_LocatorResolution ==
  (op.kind = "add" /\ op.repo # <<>>)
  => /\ op.repo =
          IF (\E i \in 1..Len(ThemeLocator) : ThemeLocator[i] = "://")
             \/ ThemeLocator[1] = "git@"
            THEN ThemeLocator
            ELSE <<"https", "://", "github.com", "/">> \o ThemeLocator
     /\ (AddWroteMetadata => portals[op.name].meta[1].repo = op.repo)

C12_Witness ==
  /\ Ended("add") /\ op.exit = 0 /\ op.name = fin /\ op.theme = "silk"
  /\ portals[fin].meta[1].repo = sshLocator

\* Whether the workspaces list of manifest p holds "portals/<n>".
Listed(p, n) == \E i \in 1..Len(p.workspaces) : p.workspaces[i] = [dir |-> "portals", name |-> n]

\* The workspaces list holds no entry twice.
NoDuplicates(ws) == \A i, j \in 1..Len(ws) : ws[i] = ws[j] => i = j

\* C13: registering a path that is already listed leaves the workspaces list
\* as it is; the list, which started without duplicates, never holds a path
\* twice after any sequence of registrations and deregistrations; and
\* deregistering a path that is not listed does not write the manifest.
C13_WorkspacesIsASet ==
  /\ NoDuplicates(pkg.workspaces)
  /\ (Ended("add") /\ Listed(pre.pkg, op.name))
       => (pkg.workspaces = pre.pkg.workspaces /\ "package.json" \notin op.wrote)
  /\ (Ended("remove") /\ ~Listed(pre.pkg, op.name))
       => (pkg = pre.pkg /\ "package.json" \notin op.wrote)

C13_Witness ==
  /\ Ended("add") /\ op.name = fin /\ Listed(pre.pkg, fin) /\ nOps = 2
  /\ pkg.workspaces = pre.pkg.workspaces

\* The list ws without its i-th entry.
Without(ws, i) == SubSeq(ws, 1, i - 1) \o SubSeq(ws, i + 1, Len(ws))

\* C14: an add or a remove leaves the workspace manifest as it was, or has
\* appended "portals/<name>" to workspaces (add), or has deleted one entry
\* equal to "portals/<name>" from it (remove); the other entries keep their
\* values and their order and every other field keeps its value.
C14_ManifestFrame ==
  LET path == [dir |-> "portals", name |-> op.name]
      before == pre.pkg.workspaces
  IN /\ Ended("add") =>
          /\ pkg.rest = pre.pkg.rest
          /\ pkg.workspaces \in {before, before \o <<path>>}
     /\ Ended("remove") =>
          /\ pkg.rest = pre.pkg.rest
          /\ pkg.hasWorkspaces = pre.pkg.hasWorkspaces
          /\ \/ pkg.workspaces = before
             \/ \E i \in 1..Len(before) : before[i] = path /\ pkg.workspaces = Without(before, i)

C14_Witness ==
  /\ Ended("remove") /\ op.name = cbt /\ pre.pkg.rest = "operator"
  /\ pkg.workspaces = <<PackagesGlob, [dir |-> "shared", name |-> <<>>]>>
  /\ pkg.rest = "operator"

\* The largest PORT among the descriptors of a non-empty list.
MaxPort(apps) ==
  CHOOSE m \in {apps[i].port : i \in 1..Len(apps)} :
    \A i \in 1..Len(apps) : apps[i].port <= m

\* The add command has written the process-manager manifest.
AddWroteEco == Ended("add") /\ "ecosystem.config.js" \in op.wrote

\* C18: the PORT of the descriptor that add writes is 3000 when the manifest
\* held no descriptors and one more than the largest PORT among them otherwise.
C18_PortIsMaxPlusOne ==
  AddWroteEco
  => eco.apps[Len(eco.apps)].port =
       IF pre.eco.apps = <<>> THEN 3000 ELSE MaxPort(pre.eco.apps) + 1

\* The descriptors of list apps that are not the one of portal n.
OtherApps(apps, n) == SelectSeq(apps, LAMBDA a : a.name # n \o <<"-portal">>)

\* C19: an add or a remove that writes the process-manager manifest keeps the
\* descriptors of all other portals as they were and keeps what the file
\* holds outside the apps list.
C19_EcoFrame ==
  (pc = "done" /\ "ecosystem.config.js" \in op.wrote)
  => /\ OtherApps(eco.apps, op.name) = OtherApps(pre.eco.apps, op.name)
     /\ eco.outside = pre.eco.outside

\* A call of getRegistry has returned; TheCall is what it was given and gave.
Called(kinds) == pc = "done" /\ op.kind \in kinds /\ op.call # <<>>

TheCall == op.call[1]

\* The call returned the cache entry as it was, without a network fetch and
\* without rewriting the cache file.
ServedFromCache ==
  /\ TheCall.result.kind = "returned" /\ TheCall.result.from = "cache"
  /\ TheCall.result.portals = pre.cache.portals
  /\ ~TheCall.fetched
  /\ cache = pre.cache

\* C15 as stated: for every cache entry and every time, getRegistry(false)
\* returns the cached entry unchanged, without a network fetch and without
\* rewriting the cache, if and only if now - lastFetched is less than one hour.
C15_Original ==
  (Called({"list"}) /\ ~op.force /\ pre.cache.present /\ pre.cache.valid)
  => (ServedFromCache <=> now - pre.cache.lastFetched < OneHour)

\* C15 amended: the same when .edutechrc can be read and parsed; when it
\* cannot, the cached entry is returned in the same way whatever its age.
C15_FreshForOneHour ==
  (Called({"list"}) /\ ~op.force /\ pre.cache.present /\ pre.cache.valid)
  => IF TheCall.rcOk
       THEN ServedFromCache <=> now - pre.cache.lastFetched < OneHour
       ELSE ServedFromCache

C15_Witness ==
  /\ Called({"list"}) /\ ~op.force /\ TheCall.rcOk /\ TheCall.net = "ok"
  /\ pre.cache.present /\ pre.cache.valid /\ pre.cache.portals # <<>>
  /\ now - pre.cache.lastFetched = OneHour - 1
  /\ ServedFromCache

\* C16: when the network fetch fails, getRegistry (of portal-list and of
\* portal-add) returns the existing cache entry whatever its age and leaves
\* the cache file as it is; when there is no cache file it fails with "No
\* registry available".
C16_NetworkFailureFallsBack ==
  (Called({"list", "add"}) /\ TheCall.fetched /\ TheCall.net = "down"
     /\ (pre.cache.present => pre.cache.valid))
  => /\ cache = pre.cache
     /\ IF pre.cache.present
          THEN /\ TheCall.result.kind = "returned" /\ TheCall.result.from = "cache"
               /\ TheCall.result.portals = pre.cache.portals
          ELSE /\ TheCall.result.kind = "thrown"
               /\ TheCall.result.msg = "No registry available"

C16_Witness ==
  /\ Called({"list"}) /\ TheCall.fetched /\ TheCall.net = "down"
  /\ pre.cache.present /\ pre.cache.valid /\ now - pre.cache.lastFetched > OneHour
  /\ TheCall.result.kind = "returned" /\ TheCall.result.portals = pre.cache.portals

\* C17: a network response that does not parse and a cache file that does
\* not parse are both handled as a fetch failure: getRegistry returns the
\* document of the other source when that one is usable and fails with "No
\* registry available" otherwise.
C17_ParseFailureFallsBack ==
  Called({"list", "add"})
  => /\ (TheCall.fetched /\ TheCall.net = "badjson")
          => IF pre.cache.present /\ pre.cache.valid
               THEN TheCall.result.kind = "returned" /\ TheCall.result.from = "cache"
               ELSE TheCall.result.kind = "thrown"
                    /\ TheCall.result.msg = "No registry available"
     /\ (pre.cache.present /\ ~pre.cache.valid)
          => IF TheCall.rcOk /\ TheCall.net = "ok"
               THEN TheCall.result.kind = "returned" /\ TheCall.result.from = "network"
               ELSE TheCall.result.kind = "thrown"
                    /\ TheCall.result.msg = "No registry available"

\* The metadata of the portal before the update that ended, and after it.
MetaBefore == pre.portals[op.name].meta[1]

MetaAfter == portals[op.name].meta[1]

\* What a successful update sets in the metadata file.
UpdateStamps ==
  /\ portals[op.name].meta # <<>>
  /\ MetaAfter.updatedAt = now
  /\ MetaAfter.previousVersion = MetaBefore.version
  /\ \E b \in backups \ pre.backups :
       /\ MetaAfter.backupLocation = b.loc
       /\ b.tree = pre.portals[op.name]

\* C20 as stated: after a successful update the metadata file holds every
\* field it had before with the same value, and updatedAt = the time of the
\* update, previousVersion = the version before it, backupLocation = the
\* backup this update created.
C20_Original ==
  (Ended("update") /\ op.exit = 0)
  => /\ UpdateStamps
     /\ \A f \in DOMAIN MetaBefore :
          f \in DOMAIN MetaAfter /\ MetaAfter[f] = MetaBefore[f]

\* C20 amended: the same, for every field it had before other than
\* updatedAt, previousVersion and backupLocation, which an earlier update has
\* left there and this one replaces.
C20_UpdateStampsMetadata ==
  (Ended("update") /\ op.exit = 0)
  => /\ UpdateStamps
     /\ \A f \in DOMAIN MetaBefore \ {"updatedAt", "previousVersion", "backupLocation"} :
          f \in DOMAIN MetaAfter /\ MetaAfter[f] = MetaBefore[f]

C20_Witness ==
  /\ Ended("update") /\ op.exit = 0 /\ nOps = 2
  /\ "updatedAt" \in DOMAIN MetaBefore
  /\ MetaAfter.updatedAt = now /\ MetaBefore.updatedAt < now
  /\ MetaAfter.installedAt = 0

\* The snapshot that the update which ended has fetched, and the live tree
\* before and after.
FetchedSnapshot == op.snap[1]

LiveBefore == pre.portals[op.name]

LiveAfter == portals[op.name]

\* C21: after a successful update without force every file of the snapshot
\* (the portal's own metadata file apart) is in the live directory with the
\* snapshot's content, every file that only the live tree had is there with
\* its old content, and the metadata file is not the snapshot's; after a
\* successful update with force the live directory holds exactly the files of
\* the snapshot, and the rewritten metadata file.
C21_MergeAndReplace ==
  (Ended("update") /\ op.exit = 0)
  => /\ LiveAfter.meta # <<>>
     /\ MetaAfter.installedAt = MetaBefore.installedAt
     /\ MetaAfter.updatedAt = now
     /\ IF op.force
          THEN LiveAfter.files = FetchedSnapshot.files
          ELSE \A f \in Files :
                 LiveAfter.files[f] = IF FetchedSnapshot.files[f] # 0
                                        THEN FetchedSnapshot.files[f]
                                        ELSE LiveBefore.files[f]

\* C22: once add has fetched the snapshot and written the metadata file, a
\* failing workspace-manifest update, a failing process-manager manifest
\* update and a failing dependency install, alone or together, are warnings:
\* add ends on its success path with exit code 0 and portals/<name> with its
\* metadata file is kept.
C22_AddWarningsDoNotAbort ==
  /\ (op.kind = "add" /\ pc = "done"
        /\ op.faults # {} /\ op.faults \subseteq {"workspaces", "ecosystem", "install"})
       => /\ op.exit = 0
          /\ portals[op.name].present
          /\ portals[op.name].meta # <<>> /\ portals[op.name].meta[1].name = op.name
  /\ (op.kind = "add" /\ "workspaces" \in op.faults) => pc \in {"add_eco", "done"}

C22_Witness ==
  /\ Ended("add") /\ op.faults = {"workspaces", "ecosystem", "install"}
  /\ op.exit = 0 /\ portals[op.name].meta # <<>> /\ pkg = pre.pkg /\ eco = pre.eco

\* C23: a failure of the dependency step of update (the package descriptor
\* is missing from the backup) is a warning: the update ends with exit code
\* 0, the updated directory and its updated metadata stay and the backup is
\* not restored.
C23_DependencyFailureIsWarning ==
  (Ended("update") /\ op.faults = {"deps"})
  => /\ op.exit = 0
     /\ LiveAfter.meta # <<>>
     /\ "updatedAt" \in DOMAIN MetaAfter /\ MetaAfter.updatedAt = now
     /\ \E b \in backups : b.loc = op.backupDir[1]


\* C24: 'update all' takes the updatable portals one at a time, and the
\* command is over only when the update of every listed portal has been
\* attempted: a portal whose update fails does not keep the remaining ones
\* from being attempted.
C24_UpdateAllAttemptsEveryPortal ==
  Ended("updateall") => op.queue = <<>>


\* C25: a backup operation (createBackup of remove, backupPortal of update)
\* never writes into a backup directory that already exists: the location
\* of a backup just taken is the location of no backup that was on disk
\* before the call, also when the earlier backup of the same portal was
\* taken at the same reading of the clock.
C25_BackupLocationIsNew ==
  (pc = "done" /\ op.backedUp) => \A b \in pre.backups : b.loc # op.backupDir[1]

\* C26: once a backup directory exists, no step of add, update or remove
\* deletes, moves or modifies it: every backup on disk before a step is on
\* disk, unchanged, after it.
C26_BackupsAreKept ==
  [][\A b \in backups : b \in backups']_vars

\* What a backup call adds to the disk: under which root, the copied tree and
\* whether the sidecar record is there.
Produced(after) ==
  { [root |-> b.loc[1], tree |-> b.tree, info |-> b.info] : b \in after \ backups }

\* C27: the backup of remove and the backup of update are the same primitive:
\* for the same portal tree both add a full copy in a new directory under the
\* backups root, with the sidecar record.
C27_SameBackupPrimitive ==
  \A n \in PortalNames :
    (portals[n].present /\ BackupAt(UpdateBackupLoc(n)) = {} /\ BackupAt(RemoveBackupLoc(n)) = {})
      => /\ Produced(BackupPortal(n)) = Produced(CreateBackup(n))
         /\ \A r \in Produced(BackupPortal(n)) : r.root = "portal-backups" /\ r.info


ChildDirectories ==
  { n \in PortalNames : portalsRoot /\ portals[n].present /\ portals[n].isDir }

\* C28: the installed-portal listing holds exactly one record per child
\* directory of the portals root (none when the root is absent); a directory
\* without a metadata file is listed with theme 'default' and version,
\* installedAt and repo 'unknown'; the lookup by name gives the record whose
\* name is the requested one, or not-found.
C28_ListingReflectsDisk ==
  (pc = "done" /\ op.kind \in {"installed", "details"})
    => /\ { r.name : r \in op.listing } = ChildDirectories
       /\ Cardinality(op.listing) = Cardinality(ChildDirectories)
       /\ \A r \in op.listing :
            portals[r.name].meta = <<>>
              => /\ r.theme = "default" /\ r.version = "unknown"
                 /\ r.installedAt = <<>> /\ r.repo = <<>>
       /\ op.kind = "details"
            => op.found = IF op.name \in ChildDirectories
                            THEN <<PortalRecord(op.name, portals[op.name])>>
                            ELSE <<>>


\* C29: removePortal without force asks for the confirmation before it
\* changes anything, and when the operator does not confirm (an empty answer
\* or anything but y/yes) the command returns with exit code 0 and the portal
\* directory, the backups and both manifests as they were.
C29_DeclinedRemoveChangesNothing ==
  /\ pc = "rem_confirm" => Workspace = pre
  /\ (op.kind = "remove" /\ ~op.force /\ op.declined # <<>>)
       => /\ ~MatchesYes(op.declined[2])
          /\ Workspace = pre
          /\ pc = "done" /\ op.exit = 0

C29_Witness ==
  /\ Ended("remove") /\ ~op.force /\ op.declined = <<"remove", <<>>>>
  /\ pre.portals[op.name].present
  /\ portals[op.name] = pre.portals[op.name]
  /\ op.backupArg /\ backups = pre.backups


\* C30: the registry resolution of add follows the cache policy of
\* getRegistry(false) of the listing command: on the same cache file, with
\* the same configuration and network outcome at the same time, it returns
\* the same portals, fetches from the network in the same cases and leaves
\* the same cache file.
C30_AddResolvesLikeList ==
  Called({"add"})
    => \E reg \in RemoteRegistries :
         LET r == GetRegistry(pre.cache, FALSE, TheCall.rcOk, TheCall.net, reg, now)
         IN /\ TheCall.result = r.result
            /\ TheCall.fetched = r.fetched
            /\ cache = r.cache


\* After a successful network fetch the cache file holds the fetched
\* registry, stamped with the time of the fetch.
FetchIsCached ==
  (Called({"list"}) /\ TheCall.result.kind = "returned" /\ TheCall.result.from = "network")
    => /\ TheCall.fetched
       /\ cache.present /\ cache.valid
       /\ cache.portals = TheCall.result.portals
       /\ cache.lastFetched = now

\* A getRegistry(false) that follows a successful fetch within one hour
\* fetches nothing and returns the portals that were fetched.
FollowingCallIsServed ==
  (Called({"list"}) /\ ~op.force /\ TheCall.afterFetch /\ now - pre.cache.lastFetched < OneHour)
    => /\ ~TheCall.fetched
       /\ TheCall.result.kind = "returned"
       /\ TheCall.result.portals = pre.cache.portals
       /\ cache = pre.cache

\* C31 as stated: after a successful network fetch the cache holds the whole
\* fetched registry stamped with the time of the fetch, a following
\* getRegistry(false) within one hour fetches nothing and returns the same
\* portals, and getRegistry(true) always attempts the network fetch.
C31_Original ==
  /\ FetchIsCached
  /\ FollowingCallIsServed
  /\ (Called({"list"}) /\ op.force) => TheCall.fetched

\* C31 amended: the same, getRegistry(true) attempting the network fetch
\* before any look at the cache whenever .edutechrc can be read and parsed;
\* when it cannot, no fetch is attempted and the cache file is the answer.
C31_FetchThenServeFromCache ==
  /\ FetchIsCached
  /\ FollowingCallIsServed
  /\ (Called({"list"}) /\ op.force)
       => IF TheCall.rcOk
            THEN TheCall.fetched
            ELSE ~TheCall.fetched /\ cache = pre.cache /\ TheCall.result = Fallback(pre.cache)

C31_Witness ==
  /\ Called({"list"}) /\ ~op.force /\ TheCall.afterFetch /\ TheCall.rcOk
  /\ TheCall.net = "ok" /\ nOps = 2
  /\ now - pre.cache.lastFetched = OneHour - 1
  /\ pre.cache.portals # <<>>
  /\ ~TheCall.fetched /\ TheCall.result.portals = pre.cache.portals


\* The snapshot was fetched: degit succeeded, or it failed and git clone
\* succeeded.
SnapshotFetched ==
  \/ op.snapFetch /\ op.faults \cap {"degit", "clone"} = {}
  \/ "degit" \in op.faults /\ ("clone" \notin op.faults \/ "rename" \in op.faults)

\* C32: after the removal of the last portal has deleted the portals root, a
\* following add whose snapshot fetch succeeds, by degit or by the clone that
\* is renamed into portals/<name>, installs the portal, and the listing is
\* empty.
C32_RootRemovalIsHarmless ==
  /\ (Ended("add") /\ ~pre.portalsRoot /\ SnapshotFetched)
       => /\ portalsRoot /\ portals[op.name].present
          /\ op.faults \subseteq {"degit"}
               => op.exit = 0 /\ portals[op.name].meta # <<>>
  /\ (Ended("installed") /\ ~pre.portalsRoot) => op.listing = {}


\* Both invocations were adds and both have finished, on their success path.
BothAdded == \A i \in Invocations : pc[i] = "done" /\ op[i].kind = "add"

\* Neither invocation read a package.json that held the path of the other.
PkgReadsOverlap ==
  /\ ~Listed(op[1].pkgRead[1], fin)
  /\ ~Listed(op[2].pkgRead[1], cbt)

LostPath == ~Listed(pkg, cbt) \/ ~Listed(pkg, fin)

\* C33: the manifest edits are unlocked read-modify-write, so two adds of
\* different portals that interleave can both finish on their success path
\* with the workspace manifest lacking one of the two registered paths: that
\* is where they end exactly when neither read the path the other wrote.
C33_InterleavedAddsLoseAPath ==
  BothAdded => (LostPath <=> PkgReadsOverlap)

C33_Witness ==
  /\ BothAdded
  /\ pre.pkg = InitialPkg /\ pre.eco = EcoFile(<<>>, "list", FALSE)
  /\ Listed(pkg, fin) /\ ~Listed(pkg, cbt)
  /\ Len(eco.apps) = 1


\* The version addPortal wrote into the metadata of portal cbt.
InstalledVersion == VersionOf(registryA.portals[cbt])

\* C34: updatePortal never changes the metadata field version: after every
\* successful update, the first or a later one, with force or without,
\* version is the value add wrote and previousVersion equals version, also
\* when the fetched snapshot carries a metadata file with another version.
C34_VersionNeverChanges ==
  (Ended("update") /\ op.exit = 0)
    => /\ MetaAfter.version = InstalledVersion
       /\ MetaAfter.version = MetaBefore.version
       /\ MetaAfter.previousVersion = MetaAfter.version

C34_Witness ==
  /\ Ended("update") /\ op.exit = 0 /\ nOps = 2 /\ op.force
  /\ FetchedSnapshot.meta # <<>>
  /\ FetchedSnapshot.meta[1].version # InstalledVersion
  /\ "previousVersion" \in DOMAIN MetaBefore
  /\ MetaAfter.version = InstalledVersion
  /\ MetaAfter.previousVersion = InstalledVersion


HasApp(e, n) == \E k \in 1..Len(e.apps) : e.apps[k].name = AppName(n)

\* C35: removePortal takes the portal out of the workspace manifest and the
\* process-manager manifest before it deletes the portal directory: when the
\* deletion fails the command exits non-zero, the portal directory is still
\* there and its manifest entries are gone.
C35_DeregisteredBeforeDelete ==
  /\ (pc = "rem_delete" /\ op.faults \cap {"workspaces", "ecosystem"} = {})
       => portals[op.name] = pre.portals[op.name]
          /\ ~Listed(pkg, op.name) /\ ~HasApp(eco, op.name)
  /\ (Ended("remove") /\ "delete" \in op.faults
        /\ op.faults \cap {"workspaces", "ecosystem"} = {})
       => /\ op.exit = 1
          /\ portals[op.name].present
          /\ ~Listed(pkg, op.name) /\ ~HasApp(eco, op.name)

C35_Witness ==
  /\ Ended("remove") /\ op.faults = {"delete"} /\ op.exit = 1
  /\ Listed(pre.pkg, op.name) /\ HasApp(pre.eco, op.name)
  /\ portals[op.name] = pre.portals[op.name]
  /\ ~Listed(pkg, op.name) /\ ~HasApp(eco, op.name)


WasHalfInstalled ==
  pre.portals[op.name].present /\ pre.portals[op.name].meta = <<>>

\* From a portal directory without metadata: add and update are rejected and
\* change nothing; a remove that is confirmed and meets no failure deletes
\* the directory.
OnlyRemoveAccepts ==
  /\ (Ended("add") /\ WasHalfInstalled) => (op.exit = 1 /\ Workspace = pre)
  /\ (Ended("update") /\ WasHalfInstalled) => (op.exit = 1 /\ Workspace = pre)
  /\ (Ended("remove") /\ WasHalfInstalled /\ op.faults = {} /\ op.declined = <<>>)
       => (op.exit = 0 /\ ~portals[op.name].present)

\* C37 as stated: when addPortal stops between placing the snapshot and
\* writing the metadata file, portals/<name> stays on disk without metadata;
\* from there add and update of the name are rejected and change nothing,
\* and remove takes the portal back to absent.
C37_Original ==
  /\ (Ended("add") /\ "meta" \in op.faults)
       => /\ op.exit = 1
          /\ portals[op.name].present /\ portals[op.name].meta = <<>>
  /\ OnlyRemoveAccepts

\* C37 amended: what stays on disk is the snapshot as it was fetched, without
\* metadata when the snapshot carries no .portal-config.json of its own; from
\* a directory without metadata add and update are rejected and change
\* nothing, and remove takes the portal back to absent.
C37_HalfInstalledPortal ==
  /\ (Ended("add") /\ "meta" \in op.faults)
       => /\ op.exit = 1
          /\ portals[op.name] \in Snapshots
          /\ pkg = pre.pkg /\ eco = pre.eco
  /\ OnlyRemoveAccepts

C37_Witness ==
  /\ Ended("remove") /\ nOps = 2 /\ op.declined = <<>> /\ op.faults = {}
  /\ WasHalfInstalled /\ pre.portals[op.name] \in Snapshots
  /\ ~Listed(pre.pkg, op.name)
  /\ ~portals[op.name].present /\ op.exit = 0


\* C38: the error cleanup of createWorkspace deletes a directory only if it
\* is the workspace directory this invocation created: an entry that was
\* there before the call is still there after it, whichever step failed, a
\* failure of the directory creation itself included.
C38_CleanupDeletesOnlyItsOwn ==
  op.kind = "create"
    => \A d \in DOMAIN dirs : pre.dirs[d] # "absent" => dirs[d] = pre.dirs[d]


\* The command started on the cache that createWorkspace seeded, less than
\* one hour after the creation.
OnSeededCache == pre.cache = InitialCache /\ now - InitialCache.lastFetched < OneHour

\* The getRegistry(false) of portal-list on the seeded cache returns its
\* empty portals without a fetch, and only a forced refresh whose fetch
\* succeeds replaces the seeded cache.
SeededCacheIsServed ==
  (Called({"list"}) /\ OnSeededCache)
    => /\ ~op.force
          => /\ ~TheCall.fetched
             /\ TheCall.result = Returned("cache", <<>>)
             /\ cache = InitialCache
       /\ cache # InitialCache <=> (op.force /\ TheCall.rcOk /\ TheCall.net = "ok")

====
